---- MODULE Spec2Model ----
(***************************************************************************)
(* Model of the forwarding/caching decision engine of                      *)
(* icarus/models/strategy.py: the soft-state nexthop table (RsnNexthop,    *)
(* RsnEntry) and the process_event of the caching strategies.              *)
(*                                                                         *)
(* Six specifications share the module and its variables; each holds the   *)
(* variables it does not use at their idle values:                         *)
(*   SpecEntry      - one RsnEntry driven by its methods with              *)
(*                    non-decreasing times;                                *)
(*   Spec           - one process_event of a detour strategy (LIRA_DFIB,   *)
(*                    LIRA_DFIB_SC, LIRA_DFIB_OPH, TFIB_SC, TFIB_DC) on a  *)
(*                    fixed topology, for arbitrary initial hint tables;   *)
(*   SpecInvalidate - invalidate_tr over a trail;                          *)
(*   SpecPlain      - process_events of HR_SYMM, HR_HYBRID_SM, LCD and     *)
(*                    PROB_CACHE;                                          *)
(*   SpecBC         - one process_event of LIRA_BC and TFIB_BC;            *)
(*   SpecLce        - successive process_events of LIRA_LCE, LIRA_CHOICE   *)
(*                    and LIRA_PROB_CACHE.                                 *)
(***************************************************************************)
EXTENDS Integers, Sequences, FiniteSets, TLC

VARIABLES
    \* ---- RsnEntry under test (SpecEntry) ----
    nexthops,             \* RsnEntry.nexthops: list of RsnNexthop records
    fresh_interval,       \* RsnEntry.fresh_interval
    expiration_interval,  \* RsnEntry.expiration_interval
    now,                  \* time of the last call (supplied by the caller)
    last_op,              \* the last method called, with its arguments
    result,               \* the hints returned by the last query
    \* ---- detour strategies (Spec) ----
    strategy,             \* registered name of the strategy instance
    extra_quota,          \* constructor parameter
    fan_out,              \* constructor parameter
    quota_increment,      \* constructor parameter (in QScale units)
    rsn_timeout,          \* LIRA_DFIB constructor parameter
    limit_replica,        \* LIRA_DFIB_SC / LIRA_DFIB_OPH constructor parameter
    p,                    \* caching probability (QScale units)
    cache_size,           \* view.cache_nodes(size=True): cache node -> size
    authoritative_cache,  \* hash-routing: the cache the content hashes to
    max_detour,           \* LIRA_LCE family: constructor parameter
    rsn_on_evict,         \* LIRA_LCE family: constructor parameter
    stored,               \* LIRA_LCE family: cache node -> contents, the
                          \* most recently used first
    hints,                \* LIRA_LCE family: node -> content -> next hop
    next_hops,            \* LIRA_LCE family: self.next_hop
    receiver,             \* receiver of the event
    cache,                \* nodes currently holding a copy of the content
    rsn,                  \* LIRA_DFIB: node -> nexthops of its RsnEntry
    rsn_present,          \* LIRA_DFIB: nodes whose table has an entry
    rsn_table,            \* keyed variants: node -> nexthops by position
    n_quotas,             \* keyed variants: node -> quota by position
    pc,                   \* position of process_event
    hop,                  \* index of the on-path loop
    quota,                \* remaining_quota / packet_quota (QScale units)
    on_path_trail,
    off_path_trails,
    on_path_serving_node,
    off_path_serving_node,
    cands,                \* rsn_entries / rsn_nexthop_objs still to try
    trail,                \* follow_offpath_trail: trail
    positions,            \* follow_offpath_trail: positions
    walk,                 \* follow_offpath_trail: prev_hop, curr_hop, rsn_hop
    sorted_paths,         \* return phase: the paths still to process
    visited,              \* return phase: nodes that forwarded the content
    first,                \* return phase: the request has been forwarded
    ev                    \* what the event did so far (observation only)

entryVars == <<nexthops, fresh_interval, expiration_interval, now, last_op,
               result>>
retVars == <<sorted_paths, visited, first>>
lceVars == <<max_detour, rsn_on_evict, stored, hints, next_hops>>
stratVars == <<strategy, extra_quota, fan_out, quota_increment, rsn_timeout,
               limit_replica, p, cache_size, authoritative_cache, lceVars, retVars, receiver, cache, rsn, rsn_present, rsn_table, n_quotas, pc,
               hop, quota, on_path_trail, off_path_trails,
               on_path_serving_node, off_path_serving_node, cands, trail,
               positions, walk, ev>>
vars == <<entryVars, stratVars>>

----------------------------------------------------------------------------
(* Bounds *)
MaxTime == 2          \* logical times 0..MaxTime
MaxK == 2             \* num_entries / k of the top-k queries
MaxExtraQuota == 2    \* extra_quota in 0..MaxExtraQuota
MaxFanOut == 2        \* fan_out in 1..MaxFanOut
MaxQuota == 2         \* initial per-position quota in 1..MaxQuota

Inf == 1000           \* float("inf")
None == "None"

Min(a, b) == IF a < b THEN a ELSE b
Max(a, b) == IF a > b THEN a ELSE b

Contains(s, e) == \E i \in 1..Len(s) : s[i] = e
Take(s, k) == SubSeq(s, 1, Min(Max(k, 0), Len(s)))

----------------------------------------------------------------------------
(* RsnNexthop *)

RsnNexthop_stamped_ahead(nexthop, dest, distance, time_stamp, used) ==
    [nexthop |-> nexthop, destination |-> dest, distance |-> distance,
     time_stamp |-> time_stamp + 1, used_before |-> used]

RsnNexthop(nexthop, dest, distance, time_stamp, used) ==
    [nexthop |-> nexthop, destination |-> dest, distance |-> distance,
     time_stamp |-> time_stamp, used_before |-> used]

age(nh, time_now) == time_now - nh.time_stamp

is_expired_at_the_limit(nh, time_now, expiration) ==
    (time_now - nh.time_stamp) = expiration + 1

is_expired(nh, time_now, expiration) ==
    (time_now - nh.time_stamp) > expiration

is_used_and_fresh(nh, time_now, fresh) ==
    nh.used_before /\ (time_now - nh.time_stamp) <= fresh

get_timestamp(nh) == nh.time_stamp

(* list.sort(key=get_timestamp, reverse=True): stable, descending *)
RECURSIVE InsertDesc(_, _)
InsertDesc(sorted, nh) ==
    IF sorted = <<>> THEN <<nh>>
    ELSE IF get_timestamp(Head(sorted)) >= get_timestamp(nh)
         THEN <<Head(sorted)>> \o InsertDesc(Tail(sorted), nh)
         ELSE <<nh>> \o sorted

RECURSIVE SortDesc(_)
SortDesc(s) ==
    IF s = <<>> THEN <<>>
    ELSE InsertDesc(SortDesc(SubSeq(s, 1, Len(s) - 1)), s[Len(s)])

----------------------------------------------------------------------------
(* RsnEntry; every method returns the new nexthops list and its result   *)

Prune(nhs, time, expiration) ==
    SelectSeq(nhs, LAMBDA x : ~is_expired(x, time, expiration))

get_nexthop(nhs, node) ==
    LET idx == {i \in 1..Len(nhs) : nhs[i].nexthop = node}
    IN  IF idx = {} THEN <<>>
        ELSE <<nhs[CHOOSE i \in idx : \A j \in idx : i <= j]>>

delete_nexthop(nhs, nh) == SelectSeq(nhs, LAMBDA x : x.nexthop # nh)

insert_nexthop_always_append(nhs, expiration, nexthop, dest, distance, time, used) ==
    Append(Prune(nhs, time, expiration),
           RsnNexthop(nexthop, dest, distance, time, used))

insert_nexthop_keeps_distance(nhs, expiration, nexthop, dest, distance, time, used) ==
    LET live == Prune(nhs, time, expiration)
        idx  == {i \in 1..Len(live) : live[i].nexthop = nexthop}
    IN  IF idx # {}
        THEN LET i == CHOOSE k \in idx : \A j \in idx : k <= j
             IN  [live EXCEPT ![i].time_stamp = time]
        ELSE Append(live, RsnNexthop(nexthop, dest, distance, time, used))

(* an existing hint gets the new time_stamp, destination and distance;   *)
(* "nh.is_used = is_used" sets an attribute nothing reads: used_before   *)
(* keeps its value                                                       *)
insert_nexthop(nhs, expiration, nexthop, dest, distance, time, used) ==
    LET live == Prune(nhs, time, expiration)
        idx  == {i \in 1..Len(live) : live[i].nexthop = nexthop}
    IN  IF idx # {}
        THEN LET i == CHOOSE k \in idx : \A j \in idx : k <= j
             IN  [live EXCEPT ![i].time_stamp = time,
                              ![i].destination = dest,
                              ![i].distance = distance]
        ELSE Append(live, RsnNexthop(nexthop, dest, distance, time, used))

get_best_k_entry_no_exclude(nhs, fresh, expiration, time, node, num_entries) ==
    [nexthops |-> Prune(nhs, time, expiration),
     result   |-> Take(SortDesc(Prune(nhs, time, expiration)), num_entries)]

get_best_k_entry_by_time_only(nhs, fresh, expiration, time, node, num_entries) ==
    [nexthops |-> Prune(nhs, time, expiration),
     result   |-> Take(SortDesc(SelectSeq(Prune(nhs, time, expiration),
                                          LAMBDA x : x.nexthop # node)),
                       num_entries)]

get_best_k_entry(nhs, fresh, expiration, time, node, num_entries) ==
    LET live == Prune(nhs, time, expiration)
        best == SortDesc(SelectSeq(
                    SelectSeq(live, LAMBDA x : is_used_and_fresh(x, time, fresh)),
                    LAMBDA x : x.nexthop # node))
        rest == SortDesc(SelectSeq(
                    SelectSeq(live, LAMBDA x : ~is_used_and_fresh(x, time, fresh)),
                    LAMBDA x : x.nexthop # node))
    IN  [nexthops |-> live,
         result   |-> IF Len(best) >= num_entries
                      THEN SubSeq(best, 1, num_entries)
                      ELSE best \o Take(rest, num_entries - Len(best))]

(* the loop "if freshest is None or n.age(time) < freshest.age(time)" *)
RECURSIVE FreshestLoop(_, _, _, _)
FreshestLoop(nhs, freshest, time, nodes) ==
    IF nhs = <<>> THEN freshest
    ELSE LET n == Head(nhs)
         IN  FreshestLoop(Tail(nhs),
                 IF freshest = <<>>
                    \/ (age(n, time) < age(freshest[1], time)
                        /\ n.nexthop \notin nodes)
                 THEN <<n>> ELSE freshest,
                 time, nodes)

get_freshest_entry(nhs, expiration, time) ==
    LET live == Prune(nhs, time, expiration)
    IN  [nexthops |-> live,
         result   |-> FreshestLoop(live, <<>>, time, {})]

get_freshest_except_nodes(nhs, expiration, time, nodes) ==
    LET live == Prune(nhs, time, expiration)
        f    == FreshestLoop(live, <<>>, time, nodes)
    IN  [nexthops |-> live,
         result   |-> IF f # <<>> /\ f[1].nexthop \in nodes THEN <<>> ELSE f]

get_freshest_except_node(nhs, expiration, time, node) ==
    get_freshest_except_nodes(nhs, expiration, time, {node})

get_topk_freshest_except_node(nhs, expiration, time, node, k) ==
    LET sorted == SortDesc(Prune(nhs, time, expiration))
    IN  [nexthops |-> sorted,
         result   |-> Take(SelectSeq(sorted, LAMBDA x : x.nexthop # node), k)]

----------------------------------------------------------------------------
(* SpecEntry: one RsnEntry, called with non-decreasing times              *)

EntryNodes == {"a", "x"}
(* the node a query excludes: one with a hint, or one without (u) *)
QueryNodes == EntryNodes \cup {"u"}
FreshIntervals == {0, 1}
ExpirationIntervals == {1, Inf}
(* (dest, distance, is_used) arguments of insert_nexthop *)
InsertArgs(n) == {<<n, 1, FALSE>>, <<"s", 2, TRUE>>}

Op(name, node, k) == [name |-> name, node |-> node, k |-> k]

(* the variables of the LIRA_LCE family while another strategy runs *)
LceIdle ==
    /\ max_detour = 0 /\ rsn_on_evict = FALSE
    /\ stored = <<>> /\ hints = <<>> /\ next_hops = <<>>

(* the strategy variables while only the entry is exercised *)
StratIdle ==
    /\ strategy = None /\ extra_quota = 0 /\ fan_out = 0
    /\ quota_increment = 0 /\ rsn_timeout = 0 /\ receiver = None
    /\ limit_replica = FALSE /\ p = 0
    /\ cache_size = <<>> /\ authoritative_cache = None
    /\ LceIdle
    /\ sorted_paths = <<>> /\ visited = {} /\ first = FALSE
    /\ cache = {} /\ rsn = <<>> /\ rsn_present = {} /\ rsn_table = <<>>
    /\ n_quotas = <<>> /\ pc = "unused" /\ hop = 0 /\ quota = 0
    /\ on_path_trail = <<>> /\ off_path_trails = <<>>
    /\ on_path_serving_node = None /\ off_path_serving_node = None
    /\ cands = <<>> /\ trail = <<>> /\ positions = <<>> /\ walk = <<>>
    /\ ev = <<>>

InitEntry ==
    /\ nexthops = <<>>
    /\ fresh_interval \in FreshIntervals
    /\ expiration_interval \in ExpirationIntervals
    /\ now = 0
    /\ last_op = Op("init", None, 0)
    /\ result = <<>>
    /\ StratIdle

EInsert ==
    \E t \in now..MaxTime, n \in EntryNodes :
      \E a \in InsertArgs(n) :
        LET nhs == insert_nexthop(nexthops, expiration_interval,
                                  n, a[1], a[2], t, a[3])
        IN  /\ nexthops' = nhs
            /\ now' = t
            /\ last_op' = [name |-> "insert_nexthop", node |-> n, k |-> 0,
                           dest |-> a[1], distance |-> a[2], used |-> a[3]]
            /\ result' = get_nexthop(nhs, n)
            /\ UNCHANGED <<fresh_interval, expiration_interval, stratVars>>

EDelete ==
    \E t \in now..MaxTime, n \in EntryNodes :
        /\ nexthops' = delete_nexthop(nexthops, n)
        /\ now' = t
        /\ last_op' = Op("delete_nexthop", n, 0)
        /\ result' = <<>>
        /\ UNCHANGED <<fresh_interval, expiration_interval, stratVars>>

EGetNexthop ==
    \E t \in now..MaxTime, n \in EntryNodes :
        /\ result' = get_nexthop(nexthops, n)
        /\ now' = t
        /\ last_op' = Op("get_nexthop", n, 0)
        /\ UNCHANGED <<nexthops, fresh_interval, expiration_interval,
                       stratVars>>

EQuery(name, t, node, k, r) ==
    /\ nexthops' = r.nexthops
    /\ result' = r.result
    /\ now' = t
    /\ last_op' = Op(name, node, k)
    /\ UNCHANGED <<fresh_interval, expiration_interval, stratVars>>

EGetBestK ==
    \E t \in now..MaxTime, n \in QueryNodes, k \in 0..MaxK :
        EQuery("get_best_k_entry", t, n, k,
               get_best_k_entry(nexthops, fresh_interval,
                                expiration_interval, t, n, k))

EGetFreshest ==
    \E t \in now..MaxTime :
        EQuery("get_freshest_entry", t, None, 0,
               get_freshest_entry(nexthops, expiration_interval, t))

EGetFreshestExceptNode ==
    \E t \in now..MaxTime, n \in QueryNodes :
        EQuery("get_freshest_except_node", t, n, 0,
               get_freshest_except_node(nexthops, expiration_interval, t, n))

EGetTopK ==
    \E t \in now..MaxTime, n \in QueryNodes, k \in 0..MaxK :
        EQuery("get_topk_freshest_except_node", t, n, k,
               get_topk_freshest_except_node(nexthops, expiration_interval,
                                             t, n, k))

EGetFreshestExceptNodes ==
    \E t \in now..MaxTime, ns \in SUBSET EntryNodes :
        EQuery("get_freshest_except_nodes", t, ns, 0,
               get_freshest_except_nodes(nexthops, expiration_interval,
                                         t, ns))

NextEntry ==
    \/ EInsert
    \/ EDelete
    \/ EGetNexthop
    \/ EGetBestK
    \/ EGetFreshest
    \/ EGetFreshestExceptNode
    \/ EGetTopK
    \/ EGetFreshestExceptNodes

SpecEntry == InitEntry /\ [][NextEntry]_vars

----------------------------------------------------------------------------
(* Topology seen through the view: two receivers, four routers, a source  *)
(*                                                                        *)
(*      r1 -- a -- b -- s          r2 -- b                                *)
(*            | \  |                                                      *)
(*      r3 -- x--y-+                                                      *)

Nodes == {"r1", "r2", "r3", "a", "b", "x", "y", "s"}
Receivers == {"r1", "r2", "r3"}
Sources == {"s"}
Routers == {"a", "b", "x", "y"}
source == "s"

get_neighbors(v) ==
    CASE v = "r1" -> <<"a">>
      [] v = "r2" -> <<"b">>
      [] v = "r3" -> <<"x">>
      [] v = "a"  -> <<"r1", "b", "x", "y">>
      [] v = "b"  -> <<"a", "s", "r2", "y">>
      [] v = "x"  -> <<"a", "y", "r3">>
      [] v = "y"  -> <<"x", "a", "b">>
      [] v = "s"  -> <<"b">>

shortest_path(r) ==
    CASE r = "r1" -> <<"r1", "a", "b", "s">>
      [] r = "r2" -> <<"r2", "b", "s">>
      [] r = "r3" -> <<"r3", "x", "a", "b", "s">>

has_cache(v) == v \in DOMAIN cache_size
has_rsn_table(v) == v \in Routers

(* controller.get_content(v): hit at a cache or a source that holds the  *)
(* content                                                               *)
get_content(v, holders) == (v = source \/ has_cache(v)) /\ v \in holders

QScale == 16          \* quota values are stored in 1/QScale units
TableSize == 3        \* positions 0..TableSize-1 of a keyed table
EventTime == 2        \* time of the event; hints carry stamps 0 or 1

StaticCost == {"LIRA_DFIB", "LIRA_DFIB_SC", "TFIB_SC"}
DynamicCost == {"LIRA_DFIB_OPH", "TFIB_DC"}
Keyed == {"LIRA_DFIB_SC", "LIRA_DFIB_OPH", "TFIB_SC", "TFIB_DC"}
Strategies == StaticCost \cup DynamicCost
Tfib == {"TFIB_SC", "TFIB_DC"}
(* the caching probability p: 0.5 and 1.0 *)
Probabilities == {QScale \div 2, QScale}
(* values of random.random(): 0.25 and 0.75 *)
Draws == {QScale \div 4, (3 * QScale) \div 4}

(* hint links an initial table may hold: <<node, nexthop>> *)
HintLinks == {<<"a", "b">>, <<"a", "x">>, <<"a", "y">>, <<"x", "y">>,
              <<"y", "a">>, <<"b", "y">>}

(* the hint links the tables may hold when the request of r comes in *)
HintLinksOf(r) ==
    IF r = "r3" THEN {<<"x", "y">>, <<"a", "y">>} ELSE HintLinks

----------------------------------------------------------------------------
(* Keyed hint table of a node (controller get/put/remove/peek keyed by   *)
(* content and nexthop): the nexthops in rank order, position 0 first    *)

IndexOf(s, e) == CHOOSE i \in 1..Len(s) : s[i] = e

peek_rsn(table, n) == IF Contains(table, n) THEN n ELSE None

get_rsn_position(table, n) == IndexOf(table, n) - 1

(* controller.get_rsn(node, key): a lookup moves the entry to the top *)
get_rsn(table, n) ==
    IF Contains(table, n)
    THEN <<n>> \o SelectSeq(table, LAMBDA e : e # n)
    ELSE table

remove_rsn_whole_table(table, n) == <<>>
remove_rsn(table, n) == SelectSeq(table, LAMBDA e : e # n)

RECURSIVE InsertByPosition(_, _)
InsertByPosition(sorted, e) ==
    IF sorted = <<>> THEN <<e>>
    ELSE IF Head(sorted).position <= e.position
         THEN <<Head(sorted)>> \o InsertByPosition(Tail(sorted), e)
         ELSE <<e>> \o sorted

RECURSIVE SortByPosition(_)
SortByPosition(s) ==
    IF s = <<>> THEN <<>>
    ELSE InsertByPosition(SortByPosition(SubSeq(s, 1, Len(s) - 1)), s[Len(s)])

(* the loop over the neighbours in lookup_rsn_at_node *)
RECURSIVE LookupLoop(_, _, _, _, _)
LookupLoop(nbrs, table, quotas, dynamic, acc) ==
    IF nbrs = <<>> THEN [table |-> table, entries |-> acc]
    ELSE LET n == Head(nbrs)
         IN  IF peek_rsn(table, n) = None
             THEN LookupLoop(Tail(nbrs), table, quotas, dynamic, acc)
             ELSE LET position == IF dynamic
                                  THEN get_rsn_position(table, n) ELSE 0
                      q == IF dynamic THEN quotas[position + 1] ELSE QScale
                  IN  LookupLoop(Tail(nbrs), get_rsn(table, n), quotas,
                                 dynamic,
                                 Append(acc, [nexthop |-> n,
                                              position |-> position,
                                              quota |-> q]))

lookup_rsn_at_node(node, table, quotas, dynamic, ignore, fanout) ==
    LET nbrs == SelectSeq(get_neighbors(node),
                          LAMBDA n : /\ n \notin ignore
                                     /\ n \notin Sources
                                     /\ n \notin Receivers)
        r    == LookupLoop(nbrs, table, quotas, dynamic, <<>>)
    IN  [table |-> r.table,
         entries |-> Take(SortByPosition(r.entries), fanout)]

(* invalidate_tr with the loop bound one short: the last link is kept  *)
RECURSIVE invalidate_tr_one_short(_, _, _)
invalidate_tr_one_short(tables, tr, i) ==
    IF i >= Len(tr) - 1 THEN [tables |-> tables, error |-> FALSE]
    ELSE IF ~has_rsn_table(tr[i]) THEN invalidate_tr_one_short(tables, tr, i + 1)
    ELSE IF ~Contains(tables[tr[i]], tr[i + 1])
         THEN [tables |-> tables, error |-> TRUE]
         ELSE invalidate_tr_one_short(
                  [tables EXCEPT ![tr[i]] = remove_rsn(@, tr[i + 1])],
                  tr, i + 1)

(* invalidate_tr: remove the hint of every link (trail[i], trail[i+1]); *)
(* "error" when a link of a node with a table has no hint               *)
RECURSIVE invalidate_tr(_, _, _)
invalidate_tr(tables, tr, i) ==
    IF i >= Len(tr) THEN [tables |-> tables, error |-> FALSE]
    ELSE IF ~has_rsn_table(tr[i]) THEN invalidate_tr(tables, tr, i + 1)
    ELSE IF ~Contains(tables[tr[i]], tr[i + 1])
         THEN [tables |-> tables, error |-> TRUE]
         ELSE invalidate_tr(
                  [tables EXCEPT ![tr[i]] = remove_rsn(@, tr[i + 1])],
                  tr, i + 1)

(* controller.invalidate_trail(trail) of the unkeyed table: drop the    *)
(* nexthop trail[i+1] from the entry of trail[i]                        *)
RECURSIVE invalidate_trail(_, _, _)
invalidate_trail(entries, tr, i) ==
    IF i >= Len(tr) THEN entries
    ELSE invalidate_trail(
             [entries EXCEPT ![tr[i]] = delete_nexthop(@, tr[i + 1])],
             tr, i + 1)

(* AIMD update of one per-position quota counter:                       *)
(* n_quotas[position] = max(1, n_quotas[position]/2)                    *)
AimdDecrease_no_floor(q) == q \div 2
AimdDecrease(q) == Max(QScale, q \div 2)

(* n_quotas[position] += self.quota_increment *)
AimdIncrease_subtracts(q, inc) == q - inc
AimdIncrease_by_one(q, inc) == q + QScale
AimdIncrease(q, inc) == q + inc

(* the loop "for position in positions" after the walk *)
RECURSIVE UpdateQuotas(_, _, _, _, _, _)
UpdateQuotas(quotas, tr, pos, i, success, inc) ==
    IF i > Len(pos) THEN quotas
    ELSE UpdateQuotas(
             [quotas EXCEPT ![tr[i]][pos[i] + 1] =
                  IF success THEN AimdIncrease(@, inc) ELSE AimdDecrease(@)],
             tr, pos, i + 1, success, inc)

----------------------------------------------------------------------------
(* Spec: one process_event of a detour strategy                          *)

QuotaIncrements == {QScale \div 2, QScale}
(* initial per-position quotas: 1..MaxQuota and 1.5 *)
QuotaInits == {q * QScale : q \in 1..MaxQuota} \cup {(3 * QScale) \div 2}
(* nodes holding the content when the event starts: the source and some  *)
(* caches, or nobody (the content is missing at its designated source)   *)
CacheInits ==
    {c \cup {source} : c \in {{}, {"y"}, {"b", "y"}, {"x"}}} \cup {{}}

EntryIdle ==
    /\ nexthops = <<>> /\ fresh_interval = 0 /\ expiration_interval = 0
    /\ now = 0 /\ last_op = Op("unused", None, 0) /\ result = <<>>

Path == shortest_path(receiver)
dynamic == strategy \in DynamicCost
keyed == strategy \in Keyed
quota_limit == (Len(Path) - 1 + extra_quota) * QScale

(* initial tables built from a set H of hint links *)
KeyedTableOf(n, H) == SelectSeq(get_neighbors(n), LAMBDA m : <<n, m>> \in H)

RECURSIVE HintsOf(_, _)
HintsOf(ns, old) ==
    IF ns = <<>> THEN <<>>
    ELSE <<RsnNexthop(Head(ns), Head(ns), 1,
                      IF Head(ns) \in old THEN 0 ELSE 1, FALSE)>>
         \o HintsOf(Tail(ns), old)

EvInit == [lookups |-> 0, detours |-> 0, content_lookups |-> <<>>,
           steps |-> 0, outcome |-> None, trail |-> <<>>,
           positions |-> <<>>, closing |-> <<>>, quotas_before |-> <<>>,
           reports |-> <<>>, emptied |-> <<>>,
           \* return phase: controller calls in the order they were made
           requests |-> <<>>, contents |-> <<>>, installs |-> <<>>,
           puts |-> <<>>, processed |-> <<>>]

EvClear(e) == [e EXCEPT !.outcome = None, !.trail = <<>>,
                        !.positions = <<>>, !.closing = <<>>,
                        !.quotas_before = <<>>]

Init ==
    /\ EntryIdle
    /\ strategy \in Strategies
    /\ extra_quota \in 0..MaxExtraQuota
    /\ fan_out \in 1..MaxFanOut
    /\ quota_increment \in (IF strategy = "LIRA_DFIB_OPH"
                            THEN QuotaIncrements ELSE {QScale})
    /\ rsn_timeout \in (IF strategy = "LIRA_DFIB" THEN {1, Inf} ELSE {Inf})
    /\ limit_replica \in (IF strategy = "LIRA_DFIB_SC" THEN BOOLEAN
                          ELSE {strategy \in Keyed})
    /\ p \in (IF strategy = "LIRA_DFIB_SC" /\ limit_replica
              THEN Probabilities ELSE {QScale})
    /\ cache_size = [n \in Routers |-> 1]
    /\ authoritative_cache = None
    /\ LceIdle
    /\ receiver \in Receivers
    /\ cache \in CacheInits
    /\ \E H \in SUBSET HintLinksOf(receiver) :
       \E old \in (IF strategy = "LIRA_DFIB" THEN {{}, {"y"}} ELSE {{}}) :
         /\ rsn_table = [n \in Nodes |->
                            IF keyed THEN KeyedTableOf(n, H) ELSE <<>>]
         /\ rsn = [n \in Nodes |->
                      IF keyed THEN <<>>
                      ELSE HintsOf(KeyedTableOf(n, H), old)]
    /\ rsn_present = {n \in Nodes : rsn[n] # <<>>}
    /\ \E q0 \in (IF dynamic THEN QuotaInits ELSE {QScale}) :
         n_quotas = [n \in Nodes |-> [i \in 1..TableSize |-> q0]]
    /\ pc = "start"
    /\ hop = 0
    /\ quota = 0
    /\ on_path_trail = <<>>
    /\ off_path_trails = <<>>
    /\ on_path_serving_node = None
    /\ off_path_serving_node = None
    /\ cands = <<>>
    /\ trail = <<>>
    /\ positions = <<>>
    /\ walk = <<>>
    /\ sorted_paths = <<>>
    /\ visited = {}
    /\ first = FALSE
    /\ ev = EvInit

params == <<strategy, extra_quota, fan_out, quota_increment, rsn_timeout,
            limit_replica, p, cache_size, authoritative_cache, receiver,
            lceVars>>

(* start_session ... quota limit computed, before the on-path loop *)
StartSession ==
    /\ pc = "start"
    /\ pc' = "hop"
    /\ hop' = 1
    /\ on_path_trail' = <<receiver>>
    /\ quota' = IF keyed THEN quota_limit ELSE 0
    /\ UNCHANGED <<entryVars, params, retVars, cache, rsn, rsn_present, rsn_table,
                   n_quotas, off_path_trails, on_path_serving_node,
                   off_path_serving_node, cands, trail, positions, walk, ev>>

u_hop == Path[hop]
v_hop == Path[hop + 1]
next_hop == IF hop + 2 <= Len(Path) THEN Path[hop + 2] ELSE None

(* quota after the on-path hop: remaining_quota -= 1 / packet_quota += 1 *)
QuotaAfterHop == IF keyed THEN quota - QScale ELSE quota + QScale

(* "we spent the quota without either reaching the source or finding a   *)
(* cached copy"                                                          *)
OutOfQuota(q, v) ==
    IF keyed THEN q <= 0 /\ v # source
    ELSE q >= quota_limit /\ v # source

OnPathCacheHit == has_cache(v_hop) /\ get_content(v_hop, cache)

EvCache(e, v) ==
    IF has_cache(v)
    THEN [e EXCEPT !.content_lookups = Append(@, v)] ELSE e

(* on-path hop: cache hit at v *)
OnPathHit ==
    /\ pc = "hop"
    /\ OnPathCacheHit
    /\ on_path_trail' = Append(on_path_trail, v_hop)
    /\ on_path_serving_node' = v_hop
    /\ pc' = "return"
    /\ ev' = EvCache(ev, v_hop)
    /\ UNCHANGED <<entryVars, params, retVars, cache, rsn, rsn_present, rsn_table,
                   n_quotas, hop, quota, off_path_trails,
                   off_path_serving_node, cands, trail, positions, walk>>

(* on-path hop: miss and the quota is spent before the source *)
OnPathQuotaExhausted ==
    /\ pc = "hop"
    /\ ~OnPathCacheHit
    /\ OutOfQuota(QuotaAfterHop, v_hop)
    /\ on_path_trail' = Append(on_path_trail, v_hop)
    /\ quota' = QuotaAfterHop
    /\ pc' = "return"
    /\ ev' = EvCache(ev, v_hop)
    /\ UNCHANGED <<entryVars, params, retVars, cache, rsn, rsn_present, rsn_table,
                   n_quotas, hop, off_path_trails, on_path_serving_node,
                   off_path_serving_node, cands, trail, positions, walk>>

(* number of peek_rsn calls of one lookup_rsn_at_node *)
Peeks(node, ignore) ==
    Len(SelectSeq(get_neighbors(node),
                  LAMBDA n : /\ n \notin ignore
                             /\ n \notin Sources
                             /\ n \notin Receivers))

AsCandidate(nh) == [nexthop |-> nh.nexthop, position |-> 0, quota |-> QScale]

RECURSIVE AsCandidates(_)
AsCandidates(nhs) ==
    IF nhs = <<>> THEN <<>>
    ELSE <<AsCandidate(Head(nhs))>> \o AsCandidates(Tail(nhs))

(* "if not len(rsn_entry.nexthops): self.controller.remove_rsn(v)" *)
remove_if_empty_never(present, node, nhs) == present
remove_if_empty(present, node, nhs) ==
    IF nhs = <<>> THEN present \ {node} ELSE present

(* the consultation left the entry of the node without any hint *)
EvEmptied(e, node, nhs) ==
    IF nhs = <<>> THEN [e EXCEPT !.emptied = Append(@, node)] ELSE e

(* on-path hop: miss, quota left: consult the hint table of v *)
OnPathLookup ==
    /\ pc = "hop"
    /\ ~OnPathCacheHit
    /\ ~OutOfQuota(QuotaAfterHop, v_hop)
    /\ on_path_trail' = Append(on_path_trail, v_hop)
    /\ quota' = QuotaAfterHop
    /\ pc' = "cand"
    /\ IF keyed
       THEN LET r == lookup_rsn_at_node(v_hop, rsn_table[v_hop],
                                        n_quotas[v_hop], dynamic,
                                        {u_hop}, fan_out)
            IN  /\ rsn_table' = [rsn_table EXCEPT ![v_hop] = r.table]
                /\ cands' = r.entries
                /\ ev' = [EvCache(ev, v_hop) EXCEPT
                             !.lookups = @ + Peeks(v_hop, {u_hop})]
                /\ UNCHANGED <<rsn, rsn_present>>
       ELSE IF /\ has_rsn_table(v_hop) /\ v_hop \in rsn_present
               /\ QuotaAfterHop <= quota_limit /\ v_hop # source
            THEN LET r == get_topk_freshest_except_node(
                              rsn[v_hop], rsn_timeout, EventTime, u_hop,
                              fan_out)
                 IN  /\ rsn' = [rsn EXCEPT ![v_hop] = r.nexthops]
                     /\ rsn_present' = remove_if_empty(rsn_present, v_hop,
                                                       r.nexthops)
                     /\ cands' = AsCandidates(r.result)
                     /\ ev' = [EvEmptied(EvCache(ev, v_hop), v_hop,
                                         r.nexthops)
                               EXCEPT !.lookups = @ + 1]
                     /\ UNCHANGED rsn_table
            ELSE /\ cands' = <<>>
                 /\ ev' = [EvCache(ev, v_hop) EXCEPT !.lookups =
                              IF has_rsn_table(v_hop) THEN @ + 1 ELSE @]
                 /\ UNCHANGED <<rsn, rsn_present, rsn_table>>
    /\ UNCHANGED <<entryVars, params, retVars, cache, n_quotas, hop, off_path_trails,
                   on_path_serving_node, off_path_serving_node, trail,
                   positions, walk>>

(* the candidate loop is over (no candidate left, or keyed and out of    *)
(* quota): next iteration of the on-path loop                            *)
CandidatesOver == cands = <<>> \/ (keyed /\ quota <= 0)

NextHop ==
    /\ pc = "cand"
    /\ CandidatesOver
    /\ hop < Len(Path) - 1
    /\ hop' = hop + 1
    /\ pc' = "hop"
    /\ cands' = <<>>
    /\ ev' = EvClear(ev)
    /\ UNCHANGED <<entryVars, params, retVars, cache, rsn, rsn_present, rsn_table,
                   n_quotas, quota, on_path_trail, off_path_trails,
                   on_path_serving_node, off_path_serving_node, trail,
                   positions, walk>>

(* the on-path loop concluded without break: get content from source *)
ReachedSource ==
    /\ pc = "cand"
    /\ CandidatesOver
    /\ hop = Len(Path) - 1
    /\ on_path_serving_node' = v_hop
    /\ pc' = "return"
    /\ cands' = <<>>
    /\ ev' = [EvClear(ev) EXCEPT !.content_lookups = Append(@, v_hop)]
    /\ UNCHANGED <<entryVars, params, retVars, cache, rsn, rsn_present, rsn_table,
                   n_quotas, hop, quota, on_path_trail, off_path_trails,
                   off_path_serving_node, trail, positions, walk>>

(* the detour may start: keyed always (quota > 0 was checked), unkeyed   *)
(* only while packet_quota < quota_limit                                 *)
DetourAllowed == keyed \/ quota < quota_limit

(* candidate skipped: an "on-path" hint, or (unkeyed) no quota left *)
CandidateSkipped ==
    /\ pc = "cand"
    /\ ~CandidatesOver
    /\ Head(cands).nexthop = next_hop \/ ~DetourAllowed
    /\ cands' = Tail(cands)
    /\ ev' = EvClear(ev)
    /\ UNCHANGED <<entryVars, params, retVars, cache, rsn, rsn_present, rsn_table,
                   n_quotas, pc, hop, quota, on_path_trail, off_path_trails,
                   on_path_serving_node, off_path_serving_node, trail,
                   positions, walk>>

(* candidate taken: pay for it and call follow_offpath_trail *)
StartDetour ==
    /\ pc = "cand"
    /\ ~CandidatesOver
    /\ Head(cands).nexthop # next_hop
    /\ DetourAllowed
    /\ quota' = IF keyed THEN quota - Head(cands).quota ELSE quota + QScale
    /\ trail' = <<v_hop>>
    /\ positions' = <<Head(cands).position>>
    /\ walk' = [prev_hop |-> u_hop, curr_hop |-> v_hop,
                rsn_hop |-> Head(cands).nexthop, quota |-> Head(cands).quota]
    /\ off_path_serving_node' = None
    /\ pc' = "walk"
    /\ ev' = [EvClear(ev) EXCEPT !.detours = @ + 1, !.steps = 0]
    /\ UNCHANGED <<entryVars, params, retVars, cache, rsn, rsn_present, rsn_table,
                   n_quotas, hop, on_path_trail, off_path_trails,
                   on_path_serving_node, cands>>

----------------------------------------------------------------------------
(* follow_offpath_trail, one iteration of its while loop per step        *)

(* "if curr_hop in trail" *)
InTrail_never(tr, node) == FALSE
InTrail(tr, node) == Contains(tr, node)

walk_prev == walk.curr_hop      \* prev_hop = curr_hop
walk_curr == walk.rsn_hop       \* curr_hop = rsn_hop

OffPathHit(v) == (v = source \/ has_cache(v)) /\ get_content(v, cache)

(* cost reported through controller.follow_trail *)
ReportedCost == IF dynamic THEN walk.quota ELSE QScale

(* the end of follow_offpath_trail after the while loop: quota update    *)
(* of the consulted positions, the candidate path, the telemetry report  *)
FinishWalk(outcome, tr, closing, reported) ==
    LET success == outcome = "hit"
    IN  /\ n_quotas' = IF dynamic
                       THEN UpdateQuotas(n_quotas, tr, positions, 1,
                                         success, quota_increment)
                       ELSE n_quotas
        /\ off_path_trails' =
               IF success
               THEN Append(off_path_trails,
                           SubSeq(on_path_trail, 1, Len(on_path_trail) - 1)
                           \o tr)
               ELSE off_path_trails
        /\ off_path_serving_node' = IF success THEN tr[Len(tr)] ELSE None
        /\ trail' = tr
        /\ cands' = Tail(cands)
        /\ ev' = [ev EXCEPT !.outcome = outcome, !.trail = tr,
                            !.positions = positions, !.closing = closing,
                            !.quotas_before = n_quotas,
                            !.steps = IF outcome = "dead_end" THEN @
                                      ELSE @ + 1,
                            !.content_lookups =
                                IF outcome = "hit" THEN Append(@, tr[Len(tr)])
                                ELSE @,
                            !.reports =
                                IF reported
                                THEN Append(@, [cost |-> ReportedCost,
                                                success |-> success])
                                ELSE @]

(* a node repeats within the trail: invalidate the trail and stop *)
WalkLoop ==
    /\ pc = "walk"
    /\ walk.rsn_hop # None
    /\ InTrail(trail, walk_curr)
    /\ IF keyed
       THEN LET r == invalidate_tr(rsn_table, trail, 1)
            IN  /\ rsn_table' = r.tables
                /\ pc' = IF r.error THEN "error" ELSE "cand"
                /\ UNCHANGED <<rsn, rsn_present>>
       ELSE /\ rsn' = invalidate_trail(rsn, trail, 1)
            /\ pc' = "cand"
            /\ UNCHANGED <<rsn_table, rsn_present>>
    /\ FinishWalk("loop", trail, <<walk_prev, walk_curr>>, TRUE)
    /\ walk' = [walk EXCEPT !.prev_hop = walk_prev, !.curr_hop = walk_curr]
    /\ UNCHANGED <<entryVars, params, retVars, cache, hop, quota, on_path_trail,
                   on_path_serving_node, positions>>

(* the content is found at a cache or at the source on the trail *)
WalkHit ==
    /\ pc = "walk"
    /\ walk.rsn_hop # None
    /\ ~InTrail(trail, walk_curr)
    /\ OffPathHit(walk_curr)
    /\ FinishWalk("hit", Append(trail, walk_curr), <<>>, TRUE)
    /\ walk' = [walk EXCEPT !.prev_hop = walk_prev, !.curr_hop = walk_curr]
    /\ pc' = "cand"
    /\ UNCHANGED <<entryVars, params, retVars, cache, rsn, rsn_present, rsn_table,
                   hop, quota, on_path_trail, on_path_serving_node,
                   positions>>

(* miss at the trail node: consult its hint table for the next hop *)
WalkAdvance ==
    /\ pc = "walk"
    /\ walk.rsn_hop # None
    /\ ~InTrail(trail, walk_curr)
    /\ ~OffPathHit(walk_curr)
    /\ trail' = Append(trail, walk_curr)
    /\ IF keyed
       THEN LET r == lookup_rsn_at_node(walk_curr, rsn_table[walk_curr],
                                        n_quotas[walk_curr], dynamic,
                                        {walk_prev}, 1)
            IN  /\ rsn_table' = [rsn_table EXCEPT ![walk_curr] = r.table]
                /\ positions' = IF r.entries = <<>> THEN positions
                                ELSE Append(positions, r.entries[1].position)
                /\ walk' = [walk EXCEPT
                               !.prev_hop = walk_prev,
                               !.curr_hop = walk_curr,
                               !.rsn_hop = IF r.entries = <<>> THEN None
                                           ELSE r.entries[1].nexthop]
                /\ ev' = [ev EXCEPT
                             !.steps = @ + 1,
                             !.lookups = @ + Peeks(walk_curr, {walk_prev}),
                             !.content_lookups =
                                 IF has_cache(walk_curr)
                                 THEN Append(@, walk_curr) ELSE @]
                /\ UNCHANGED <<rsn, rsn_present>>
       ELSE /\ IF has_rsn_table(walk_curr) /\ walk_curr \in rsn_present
               THEN LET r == get_freshest_except_node(
                                 rsn[walk_curr], rsn_timeout, EventTime,
                                 walk_prev)
                    IN  /\ rsn' = [rsn EXCEPT ![walk_curr] = r.nexthops]
                        /\ rsn_present' = remove_if_empty(
                                              rsn_present, walk_curr,
                                              r.nexthops)
                        /\ walk' = [walk EXCEPT
                                       !.prev_hop = walk_prev,
                                       !.curr_hop = walk_curr,
                                       !.rsn_hop =
                                           IF r.result = <<>> THEN None
                                           ELSE r.result[1].nexthop]
               ELSE /\ walk' = [walk EXCEPT !.prev_hop = walk_prev,
                                            !.curr_hop = walk_curr,
                                            !.rsn_hop = None]
                    /\ UNCHANGED <<rsn, rsn_present>>
            /\ ev' = [(IF has_rsn_table(walk_curr)
                          /\ walk_curr \in rsn_present
                       THEN EvEmptied(ev, walk_curr, rsn'[walk_curr])
                       ELSE ev) EXCEPT
                         !.steps = @ + 1,
                         !.lookups = IF has_rsn_table(walk_curr)
                                     THEN @ + 1 ELSE @,
                         !.content_lookups =
                             IF has_cache(walk_curr)
                             THEN Append(@, walk_curr) ELSE @]
            /\ UNCHANGED <<rsn_table, positions>>
    /\ UNCHANGED <<entryVars, params, retVars, cache, n_quotas, pc, hop, quota,
                   on_path_trail, off_path_trails, on_path_serving_node,
                   off_path_serving_node, cands>>

(* no further hint (else of the while): invalidate the trail; the        *)
(* unkeyed LIRA_DFIB returns here without reporting the outcome          *)
WalkDeadEnd ==
    /\ pc = "walk"
    /\ walk.rsn_hop = None
    /\ IF keyed
       THEN LET r == invalidate_tr(rsn_table, trail, 1)
            IN  /\ rsn_table' = r.tables
                /\ pc' = IF r.error THEN "error" ELSE "cand"
                /\ UNCHANGED <<rsn, rsn_present>>
       ELSE /\ rsn' = invalidate_trail(rsn, trail, 1)
            /\ pc' = "cand"
            /\ UNCHANGED <<rsn_table, rsn_present>>
    /\ FinishWalk("dead_end", trail, <<>>, keyed)
    /\ UNCHANGED <<entryVars, params, retVars, cache, hop, quota, on_path_trail,
                   on_path_serving_node, positions, walk>>

----------------------------------------------------------------------------
(* Return phase of process_event: one step per path of sorted_paths      *)

(* sorted(off_path_trails, key=len): stable, ascending *)
RECURSIVE InsertByLen(_, _)
InsertByLen(sorted, t) ==
    IF sorted = <<>> THEN <<t>>
    ELSE IF Len(Head(sorted)) <= Len(t)
         THEN <<Head(sorted)>> \o InsertByLen(Tail(sorted), t)
         ELSE <<t>> \o sorted

RECURSIVE SortByLen(_)
SortByLen(s) ==
    IF s = <<>> THEN <<>>
    ELSE InsertByLen(SortByLen(SubSeq(s, 1, Len(s) - 1)), s[Len(s)])

(* path.reverse() *)
RECURSIVE Reverse(_)
Reverse(s) == IF s = <<>> THEN <<>> ELSE Append(Reverse(Tail(s)), Head(s))

(* the links (path[hop-1], path[hop]) for hop in range(1, len(path)) *)
Links(path) == [i \in 1..(Len(path) - 1) |-> <<path[i], path[i + 1]>>]

(* controller.put_rsn(node, nexthop, key) of the keyed table: the key    *)
(* goes to the top of the node's table, the last entry leaves a full one *)
put_rsn(tables, node, nexthop) ==
    IF ~has_rsn_table(node) THEN tables
    ELSE [tables EXCEPT ![node] =
             Take(<<nexthop>> \o remove_rsn(@, nexthop), TableSize)]

(* controller.put_content(node): the node's cache takes the content *)
put_content_dropped(holders, node) == holders
put_content(holders, node) ==
    IF has_cache(node) THEN holders \cup {node} ELSE holders

(* "sorted_paths = sorted(off_path_trails, key=len)" and the on-path     *)
(* trail appended when the request was served on-path                    *)
SortedPaths ==
    IF on_path_serving_node # None
    THEN Append(SortByLen(off_path_trails), on_path_trail)
    ELSE SortByLen(off_path_trails)

SortPaths ==
    /\ pc = "return"
    /\ pc' = "deliver"
    /\ sorted_paths' = SortedPaths
    /\ visited' = {}
    /\ first' = FALSE
    /\ UNCHANGED <<entryVars, params, cache, rsn, rsn_present, rsn_table,
                   n_quotas, hop, quota, on_path_trail, off_path_trails,
                   on_path_serving_node, off_path_serving_node, cands, trail,
                   positions, walk, ev>>

(* which loop of the return phase handles the reversed path *)
ReturnMode(path) ==
    IF strategy = "LIRA_DFIB" THEN "dfib"
    ELSE IF strategy \in Tfib
         THEN (IF path[1] = source THEN "tfib_source" ELSE "tfib_cache")
    ELSE IF limit_replica /\ path[1] = source THEN "lr_source"
    ELSE "toward_cache"

(* range(first, last + 1) of the loop over the reversed path *)
FirstHop(mode) == IF mode = "lr_source" THEN 2 ELSE 1
LastHop(mode, path) ==
    IF mode \in {"dfib", "tfib_source"} THEN Len(path) - 1 ELSE Len(path) - 2

(* "if prev_hop in visited.keys() and visited[prev_hop]" *)
AlreadyVisited_never(vis, node) == FALSE
AlreadyVisited(vis, node) == node \in vis

(* "if self.p == 1.0 or random.random() <= self.p" *)
CachingDraw(draw) == p = QScale \/ draw <= p

(* ProbCache law of the TFIB family: random.random() < prob_cache, with  *)
(* prob_cache = N / (t_tw * cache_size) * (x / c) ** c somewhere in (0,1) *)
prob_cache == QScale \div 2

(* random.random() is called for node n while the path is returned *)
Drawn(mode, path, n) ==
    /\ Contains(path, n)
    /\ \/ mode = "tfib_source"
       \/ mode \in {"dfib", "lr_source"} /\ p # QScale

(* state threaded through the loop over one path *)
ReturnState ==
    [visited |-> visited, rsn |-> rsn, rsn_present |-> rsn_present,
     rsn_table |-> rsn_table, cache |-> cache, contents |-> ev.contents,
     installs |-> ev.installs, puts |-> ev.puts, placement |-> FALSE,
     hops |-> 0, stopped_at |-> None]

Install(prev, at, nexthop) == [prev |-> prev, at |-> at, nexthop |-> nexthop]

(* the distance given to the hint of hop h of a returned path of len     *)
(* nodes: "len(path) - hop"                                              *)
HintDistance_from_zero(len, h) == len - h - 1
HintDistance(len, h) == len - h

(* body of the LIRA_DFIB loop *)
DfibHop(st, path, h, rnd) ==
    LET prev_hop == path[h]
        curr_hop == path[h + 1]
        distance == HintDistance(Len(path), h)
        old      == IF has_rsn_table(prev_hop) /\ prev_hop \in st.rsn_present
                    THEN st.rsn[prev_hop] ELSE <<>>
        entry    == insert_nexthop(old, rsn_timeout, curr_hop, curr_hop,
                                   distance, EventTime, FALSE)
        rsn1     == IF has_rsn_table(prev_hop)
                    THEN [st.rsn EXCEPT ![prev_hop] = entry] ELSE st.rsn
        present1 == IF has_rsn_table(prev_hop)
                    THEN st.rsn_present \cup {prev_hop} ELSE st.rsn_present
        back     == /\ has_rsn_table(curr_hop) /\ curr_hop \in present1
                    /\ get_nexthop(rsn1[curr_hop], prev_hop) # <<>>
        rsn2     == IF back
                    THEN [rsn1 EXCEPT ![curr_hop] =
                             insert_nexthop(@, rsn_timeout, prev_hop, prev_hop,
                                            distance, EventTime, FALSE)]
                    ELSE rsn1
        put      == has_cache(curr_hop) /\ CachingDraw(rnd[curr_hop])
    IN  [st EXCEPT
            !.visited = @ \cup {prev_hop},
            !.rsn = rsn2,
            !.rsn_present = present1,
            !.installs = Append(@, Install(prev_hop, prev_hop, curr_hop)),
            !.cache = IF put THEN put_content(@, curr_hop) ELSE @,
            !.puts = IF put THEN Append(@, curr_hop) ELSE @,
            !.contents = Append(@, <<prev_hop, curr_hop>>),
            !.hops = @ + 1]

(* body of the loops of LIRA_DFIB_SC and LIRA_DFIB_OPH *)
LiraHop(st, mode, path, h, rnd) ==
    LET prev_hop == path[h]
        curr_hop == path[h + 1]
        put      == /\ mode = "lr_source" /\ has_cache(curr_hop)
                    /\ CachingDraw(rnd[curr_hop])
    IN  [st EXCEPT
            !.visited = @ \cup {prev_hop},
            !.rsn_table = IF mode = "lr_source"
                          THEN put_rsn(@, prev_hop, curr_hop)
                          ELSE put_rsn(@, curr_hop, prev_hop),
            !.installs = Append(@, IF mode = "lr_source"
                                   THEN Install(prev_hop, prev_hop, curr_hop)
                                   ELSE Install(prev_hop, curr_hop, prev_hop)),
            !.cache = IF put THEN put_content(@, prev_hop) ELSE @,
            !.puts = IF put THEN Append(@, prev_hop) ELSE @,
            !.contents = Append(@, <<prev_hop, curr_hop>>),
            !.hops = @ + 1]

(* body of the loops of TFIB_SC and TFIB_DC *)
TfibHop(st, mode, path, h, rnd) ==
    LET prev_hop == path[h]
        curr_hop == path[h + 1]
        toward_user == mode = "tfib_source" /\ ~st.placement
        put      == /\ mode = "tfib_source" /\ ~st.placement
                    /\ has_cache(curr_hop)
                    /\ (rnd[curr_hop] < prob_cache \/ h = Len(path) - 1)
    IN  [st EXCEPT
            !.visited = @ \cup {prev_hop},
            !.rsn_table = IF toward_user
                          THEN put_rsn(@, prev_hop, curr_hop)
                          ELSE put_rsn(@, curr_hop, prev_hop),
            !.installs = Append(@, IF toward_user
                                   THEN Install(prev_hop, prev_hop, curr_hop)
                                   ELSE Install(prev_hop, curr_hop, prev_hop)),
            !.cache = IF put THEN put_content(@, curr_hop) ELSE @,
            !.puts = IF put THEN Append(@, curr_hop) ELSE @,
            !.placement = @ \/ put,
            !.contents = IF mode = "tfib_source"
                         THEN Append(@, <<prev_hop, curr_hop>>) ELSE @,
            !.hops = @ + 1]

ReturnHop(st, mode, path, h, rnd) ==
    IF mode = "dfib" THEN DfibHop(st, path, h, rnd)
    ELSE IF mode \in {"tfib_source", "tfib_cache"}
         THEN TfibHop(st, mode, path, h, rnd)
    ELSE LiraHop(st, mode, path, h, rnd)

(* the loop over the hops of one reversed path, with its break *)
RECURSIVE ReturnLoop(_, _, _, _, _)
ReturnLoop(st, mode, path, h, rnd) ==
    IF h > LastHop(mode, path) THEN st
    ELSE IF AlreadyVisited(st.visited, path[h])
         THEN [st EXCEPT !.stopped_at = path[h]]
         ELSE ReturnLoop(ReturnHop(st, mode, path, h, rnd), mode, path,
                         h + 1, rnd)

(* one iteration of "for path in sorted_paths" *)
ReturnPath ==
    /\ pc = "deliver"
    /\ sorted_paths # <<>>
    /\ \E rnd \in [{n \in Nodes : has_cache(n)} -> Draws] :
         LET path == Head(sorted_paths)
             rev  == Reverse(path)
             mode == ReturnMode(rev)
             st   == ReturnLoop(ReturnState, mode, rev, FirstHop(mode), rnd)
         IN  /\ \A n \in DOMAIN rnd :
                    Drawn(mode, path, n) \/ rnd[n] = QScale \div 4
             /\ visited' = st.visited
             /\ rsn' = st.rsn
             /\ rsn_present' = st.rsn_present
             /\ rsn_table' = st.rsn_table
             /\ cache' = st.cache
             /\ ev' = [ev EXCEPT
                          !.requests = IF first THEN @ ELSE @ \o Links(path),
                          !.contents = st.contents,
                          !.installs = st.installs,
                          !.puts = st.puts,
                          !.processed =
                              Append(@, [path |-> path, mode |-> mode,
                                         hops |-> st.hops,
                                         stopped_at |-> st.stopped_at])]
    /\ first' = TRUE
    /\ sorted_paths' = Tail(sorted_paths)
    /\ UNCHANGED <<entryVars, params, n_quotas, pc, hop, quota,
                   on_path_trail, off_path_trails, on_path_serving_node,
                   off_path_serving_node, cands, trail, positions, walk>>

(* controller.end_session() *)
EndSession ==
    /\ pc = "deliver"
    /\ sorted_paths = <<>>
    /\ pc' = "done"
    /\ UNCHANGED <<entryVars, params, retVars, cache, rsn, rsn_present,
                   rsn_table, n_quotas, hop, quota, on_path_trail,
                   off_path_trails, on_path_serving_node,
                   off_path_serving_node, cands, trail, positions, walk, ev>>

Next ==
    \/ StartSession
    \/ OnPathHit
    \/ OnPathQuotaExhausted
    \/ OnPathLookup
    \/ NextHop
    \/ ReachedSource
    \/ CandidateSkipped
    \/ StartDetour
    \/ WalkLoop
    \/ WalkHit
    \/ WalkAdvance
    \/ WalkDeadEnd
    \/ SortPaths
    \/ ReturnPath
    \/ EndSession

Spec == Init /\ [][Next]_vars

----------------------------------------------------------------------------
(* SpecInvalidate: invalidate_tr of the keyed strategies called with an  *)
(* arbitrary trail on arbitrary hint tables                              *)

MaxTrail == 3
(* nodes of a trail: a receiver (no hint table) and three routers *)
TrailNodes == {"r1", "a", "b", "y"}
Trails == UNION {[1..n -> TrailNodes] : n \in 1..MaxTrail}

InitInvalidate ==
    /\ EntryIdle
    /\ strategy \in {"LIRA_DFIB_OPH", "TFIB_SC"}
    /\ extra_quota = 0 /\ fan_out = 0 /\ quota_increment = 0
    /\ rsn_timeout = 0 /\ limit_replica = FALSE /\ p = 0
    /\ cache_size = <<>> /\ authoritative_cache = None
    /\ LceIdle
    /\ receiver = None /\ cache = {}
    /\ rsn = <<>> /\ rsn_present = {}
    /\ \E H \in SUBSET HintLinks :
           rsn_table = [n \in Nodes |-> KeyedTableOf(n, H)]
    /\ n_quotas = <<>>
    /\ pc = "call"
    /\ hop = 0 /\ quota = 0
    /\ on_path_trail = <<>> /\ off_path_trails = <<>>
    /\ on_path_serving_node = None /\ off_path_serving_node = None
    /\ cands = <<>>
    /\ trail \in Trails
    /\ positions = <<>> /\ walk = <<>>
    /\ sorted_paths = <<>> /\ visited = {} /\ first = FALSE
    /\ ev = [before |-> rsn_table]

(* self.invalidate_tr(trail): returns, or raises RuntimeError *)
InvalidateTr ==
    /\ pc = "call"
    /\ LET r == invalidate_tr(rsn_table, trail, 1)
       IN  /\ rsn_table' = r.tables
           /\ pc' = IF r.error THEN "error" ELSE "returned"
    /\ UNCHANGED <<entryVars, params, retVars, cache, rsn, rsn_present,
                   n_quotas, hop, quota, on_path_trail, off_path_trails,
                   on_path_serving_node, off_path_serving_node, cands, trail,
                   positions, walk, ev>>

NextInvalidate ==
    \/ InvalidateTr

SpecInvalidate == InitInvalidate /\ [][NextInvalidate]_vars

----------------------------------------------------------------------------
(* SpecPlain: successive process_events of the strategies without hint   *)
(* tables (HR_SYMM, HR_HYBRID_SM, LCD, PROB_CACHE) on the same topology,  *)
(* for several deployments of the caches                                  *)

MaxEvents == 2        \* process_event calls in a row

Neighbours(v) == {get_neighbors(v)[i] : i \in 1..Len(get_neighbors(v))}

(* the nodes at most k hops from v *)
RECURSIVE Within(_, _)
Within(v, k) ==
    IF k = 0 THEN {v}
    ELSE LET B == Within(v, k - 1)
         IN  B \cup UNION {Neighbours(n) : n \in B}

HopDistance ==
    [u \in Nodes |-> [v \in Nodes |->
        CHOOSE k \in 0..Cardinality(Nodes) :
            /\ v \in Within(u, k)
            /\ k = 0 \/ v \notin Within(u, k - 1)]]

RECURSIVE PathBetween(_, _)
PathBetween(u, v) ==
    IF u = v THEN <<u>>
    ELSE LET closer == SelectSeq(get_neighbors(u),
                                 LAMBDA n : HopDistance[n][v]
                                            = HopDistance[u][v] - 1)
         IN  <<u>> \o PathBetween(closer[1], v)

ShortestPaths == [u \in Nodes |-> [v \in Nodes |-> PathBetween(u, v)]]

(* view.shortest_path(u, v) for any two nodes *)
shortest_path_between(u, v) == ShortestPaths[u][v]

Hashroutings == {"HR_SYMM", "HR_HYBRID_SM"}
PlainStrategies == Hashroutings \cup {"LCD", "PROB_CACHE"}

(* deployments of the caches: every router, only x and y, only b, only  *)
(* a, and a and b with different sizes                                   *)
CacheSizes ==
    {[n \in Routers |-> 1], [n \in {"x", "y"} |-> 1], [n \in {"b"} |-> 1],
     [n \in {"a"} |-> 1], [n \in {"a", "b"} |-> IF n = "a" THEN 2 ELSE 1]}

(* values of random.random() offered to ProbCache: 0 and 0.25 *)
ProbCacheDraws == {0, QScale \div 4}

(* ProbCache.__init__: t_tw=10 *)
t_tw == 10

(* one call of the controller, in the order the calls are made *)
Call(name, u, v) == [call |-> name, u |-> u, v |-> v]

start_session == Call("start_session", None, None)
end_session == Call("end_session", None, None)
forward_request_path(u, v) == Call("forward_request_path", u, v)
forward_content_path(u, v) == Call("forward_content_path", u, v)
(* forward_content_path(u, v, main_path=False) *)
forward_content_branch(u, v) == Call("forward_content_branch", u, v)
forward_request_hop(u, v) == Call("forward_request_hop", u, v)
forward_content_hop(u, v) == Call("forward_content_hop", u, v)
GetContent(v) == Call("get_content", v, None)
PutContent(v) == Call("put_content", v, None)

(* what one process_event did: the controller calls, the copies held    *)
(* afterwards, and whether it raised RuntimeError                        *)
Outcome(calls, holders, error) ==
    [calls |-> calls, cache |-> holders, error |-> error]

(* HashroutingSymmetric.process_event *)
HrSymm(r, holders) ==
    LET c     == authoritative_cache
        ask   == <<start_session, forward_request_path(r, c), GetContent(c)>>
        asked == ask \o <<forward_request_path(c, source), GetContent(source)>>
    IN  IF get_content(c, holders)
        THEN Outcome(ask \o <<forward_content_path(c, r), end_session>>,
                     holders, FALSE)
        ELSE IF ~get_content(source, holders)
             THEN Outcome(asked, holders, TRUE)
        ELSE Outcome(asked \o <<forward_content_path(source, c),
                                PutContent(c),
                                forward_content_path(c, r),
                                end_session>>,
                     put_content(holders, c), FALSE)

(* "find what is the node that has to fork the content flow" *)
RECURSIVE ForkLoop(_, _, _)
ForkLoop(cache_path, recv_path, i) ==
    IF i > Min(Len(cache_path), Len(recv_path)) THEN authoritative_cache
    ELSE IF cache_path[i] # recv_path[i] THEN cache_path[i - 1]
    ELSE ForkLoop(cache_path, recv_path, i + 1)

fork_node(r) ==
    ForkLoop(shortest_path_between(source, authoritative_cache),
             shortest_path_between(source, r), 2)

symmetric_path_len(r) ==
    Len(shortest_path_between(source, authoritative_cache))
    + Len(shortest_path_between(authoritative_cache, r)) - 2

multicast_path_len(r) ==
    Len(shortest_path_between(source, fork_node(r)))
    + Len(shortest_path_between(fork_node(r), authoritative_cache))
    + Len(shortest_path_between(fork_node(r), r)) - 3

(* "if symmetric_path_len <= multicast_path_len: # use symmetric delivery" *)
UseSymmetric_strictly(sym, multi) == sym < multi
UseSymmetric(sym, multi) == sym <= multi

(* HashroutingHybridSM.process_event *)
HrHybridSm(r, holders) ==
    LET c     == authoritative_cache
        ask   == <<start_session, forward_request_path(r, c), GetContent(c)>>
        asked == ask \o <<forward_request_path(c, source), GetContent(source)>>
    IN  IF get_content(c, holders)
        THEN Outcome(ask \o <<forward_content_path(c, r)>>, holders, FALSE)
        ELSE IF ~get_content(source, holders)
             THEN Outcome(asked, holders, TRUE)
        ELSE IF Contains(shortest_path_between(source, r), c)
             THEN Outcome(asked \o <<forward_content_path(source, c),
                                     PutContent(c),
                                     forward_content_path(c, r)>>,
                          put_content(holders, c), FALSE)
        ELSE IF UseSymmetric(symmetric_path_len(r), multicast_path_len(r))
             THEN Outcome(asked \o <<PutContent(c),
                                     forward_content_path(source, c),
                                     forward_content_path(c, r),
                                     end_session>>,
                          put_content(holders, c), FALSE)
        ELSE Outcome(asked \o <<PutContent(c),
                                forward_content_path(source, r),
                                forward_content_branch(fork_node(r), c),
                                end_session>>,
                     put_content(holders, c), FALSE)

(* the request loop of LCD and ProbCache over path_links(path): the     *)
(* calls made and the serving node                                       *)
RECURSIVE RequestLoop(_, _, _, _)
RequestLoop(path, i, holders, calls) ==
    LET u == path[i]
        v == path[i + 1]
        forwarded == Append(calls, forward_request_hop(u, v))
    IN  IF has_cache(v) /\ get_content(v, holders)
        THEN [calls |-> Append(forwarded, GetContent(v)), serving_node |-> v]
        ELSE LET missed == IF has_cache(v)
                           THEN Append(forwarded, GetContent(v))
                           ELSE forwarded
             IN  IF i + 1 = Len(path)
                 THEN [calls |-> Append(missed, GetContent(v)),
                       serving_node |-> v]
                 ELSE RequestLoop(path, i + 1, holders, missed)

(* "if not copied and v != receiver and self.view.has_cache(v)" *)
LeaveCopy_everywhere(copied, v, r) == v # r /\ has_cache(v)
LeaveCopy(copied, v, r) == ~copied /\ v # r /\ has_cache(v)

(* the content loop of LCD over the reversed path *)
RECURSIVE LcdReturn(_, _, _, _, _, _)
LcdReturn(path, i, r, copied, holders, calls) ==
    IF i >= Len(path) THEN Outcome(Append(calls, end_session), holders, FALSE)
    ELSE LET u == path[i]
             v == path[i + 1]
             forwarded == Append(calls, forward_content_hop(u, v))
         IN  IF LeaveCopy(copied, v, r)
             THEN LcdReturn(path, i + 1, r, TRUE, put_content(holders, v),
                            Append(forwarded, PutContent(v)))
             ELSE LcdReturn(path, i + 1, r, copied, holders, forwarded)

(* LeaveCopyDown.process_event *)
Lcd(r, holders) ==
    LET req == RequestLoop(shortest_path_between(r, source), 1, holders,
                           <<start_session>>)
    IN  LcdReturn(Reverse(shortest_path_between(r, req.serving_node)), 1, r,
                  FALSE, holders, req.calls)

RECURSIVE Pow(_, _)
Pow(b, e) == IF e = 0 THEN 1 ELSE b * Pow(b, e - 1)

RECURSIVE SumSizes(_, _)
SumSizes(path, i) ==
    IF i > Len(path) THEN 0
    ELSE (IF path[i] \in DOMAIN cache_size THEN cache_size[path[i]] ELSE 0)
         + SumSizes(path, i + 1)

(* "if v in self.cache_size: x += 1" *)
CountCache_never(x, v) == x
CountCache(x, v) == IF v \in DOMAIN cache_size THEN x + 1 ELSE x

(* prob_cache = float(N)/(t_tw * cache_size[v])*(x/c)**c as the fraction *)
(* num / den                                                             *)
ProbCacheLaw(N, v, x, c) ==
    [node |-> v, num |-> N * Pow(x, c),
     den |-> t_tw * cache_size[v] * Pow(c, c)]

(* "random.random() < prob_cache" for a draw in 1/QScale units *)
DrawBelow(draw, prob) == draw * prob.den < QScale * prob.num

(* the content loop of ProbCache over the reversed path *)
RECURSIVE ProbCacheReturn(_, _, _, _, _, _, _, _)
ProbCacheReturn(path, i, r, x, rnd, holders, calls, probs) ==
    IF i >= Len(path)
    THEN [calls |-> Append(calls, end_session), cache |-> holders,
          error |-> FALSE, probs |-> probs]
    ELSE LET u == path[i]
             v == path[i + 1]
             c == Cardinality({j \in 1..Len(path) : has_cache(path[j])})
             N == SumSizes(path, i)
             x1 == CountCache(x, v)
             forwarded == Append(calls, forward_content_hop(u, v))
         IN  IF v # r /\ v \in DOMAIN cache_size
             THEN LET prob == ProbCacheLaw(N, v, x1, c)
                      put  == DrawBelow(rnd[v], prob)
                  IN  ProbCacheReturn(
                          path, i + 1, r, x1, rnd,
                          IF put THEN put_content(holders, v) ELSE holders,
                          IF put THEN Append(forwarded, PutContent(v))
                          ELSE forwarded,
                          Append(probs, [prob EXCEPT !.node = v]))
             ELSE ProbCacheReturn(path, i + 1, r, x1, rnd, holders,
                                  forwarded, probs)

(* ProbCache.process_event *)
ProbCacheEvent(r, holders, rnd) ==
    LET req == RequestLoop(shortest_path_between(r, source), 1, holders,
                           <<start_session>>)
    IN  ProbCacheReturn(Reverse(shortest_path_between(r, req.serving_node)),
                        1, r, 0, rnd, holders, req.calls, <<>>)

(* the holders when the first request comes in *)
PlainCacheInits ==
    {{}, {source}} \cup {{source, n} : n \in DOMAIN cache_size}

InitPlain ==
    /\ EntryIdle
    /\ strategy \in PlainStrategies
    /\ extra_quota = 0 /\ fan_out = 0 /\ quota_increment = 0
    /\ rsn_timeout = 0 /\ limit_replica = FALSE /\ p = 0
    /\ cache_size \in CacheSizes
    /\ LceIdle
    /\ authoritative_cache \in (IF strategy \in Hashroutings
                                THEN DOMAIN cache_size ELSE {None})
    /\ receiver = None
    /\ cache \in PlainCacheInits
    /\ rsn = <<>> /\ rsn_present = {} /\ rsn_table = <<>> /\ n_quotas = <<>>
    /\ pc = "idle"
    /\ hop = 0 /\ quota = 0
    /\ on_path_trail = <<>> /\ off_path_trails = <<>>
    /\ on_path_serving_node = None /\ off_path_serving_node = None
    /\ cands = <<>> /\ trail = <<>> /\ positions = <<>> /\ walk = <<>>
    /\ sorted_paths = <<>> /\ visited = {} /\ first = FALSE
    /\ ev = [n |-> 0, calls |-> <<>>, probs |-> <<>>, draws |-> <<>>,
             before |-> {}, prev |-> <<>>, prev_receiver |-> None,
             evicted |-> FALSE, pending |-> FALSE]

plainUnchanged ==
    <<entryVars, strategy, extra_quota, fan_out, quota_increment,
      rsn_timeout, limit_replica, p, cache_size, authoritative_cache,
      lceVars, retVars, rsn, rsn_present, rsn_table, n_quotas, hop, quota,
      on_path_trail, off_path_trails, on_path_serving_node,
      off_path_serving_node, cands, trail, positions, walk>>

(* process_event(time, r, content, log) has run with outcome o *)
Processed(r, o, probs, draws) ==
    /\ receiver' = r
    /\ cache' = o.cache
    /\ pc' = IF o.error THEN "error" ELSE "idle"
    /\ ev' = [n |-> ev.n + 1, calls |-> o.calls, probs |-> probs,
              draws |-> draws, before |-> cache, prev |-> ev.calls,
              prev_receiver |-> receiver,
              \* a copy was evicted since the previous process_event
              evicted |-> ev.pending, pending |-> FALSE]
    /\ UNCHANGED plainUnchanged

HrSymmEvent ==
    /\ pc = "idle" /\ strategy = "HR_SYMM" /\ ev.n < MaxEvents
    /\ \E r \in Receivers : Processed(r, HrSymm(r, cache), <<>>, <<>>)

HrHybridSmEvent ==
    /\ pc = "idle" /\ strategy = "HR_HYBRID_SM" /\ ev.n < MaxEvents
    /\ \E r \in Receivers : Processed(r, HrHybridSm(r, cache), <<>>, <<>>)

LcdEvent ==
    /\ pc = "idle" /\ strategy = "LCD" /\ ev.n < MaxEvents
    /\ \E r \in Receivers : Processed(r, Lcd(r, cache), <<>>, <<>>)

ProbCacheProcessEvent ==
    /\ pc = "idle" /\ strategy = "PROB_CACHE" /\ ev.n < MaxEvents
    /\ \E r \in Receivers, rnd \in [DOMAIN cache_size -> ProbCacheDraws] :
           LET o == ProbCacheEvent(r, cache, rnd)
           IN  /\ \A n \in DOMAIN rnd :
                      (\E i \in 1..Len(o.probs) : o.probs[i].node = n)
                      \/ rnd[n] = 0
               /\ Processed(r, o, o.probs, rnd)

(* between two requests the cache of a node replaces the content by     *)
(* another one                                                           *)
Evict ==
    /\ pc = "idle" /\ ev.n >= 1 /\ ev.n < MaxEvents
    /\ \E n \in cache \cap DOMAIN cache_size : cache' = cache \ {n}
    /\ ev' = [ev EXCEPT !.pending = TRUE]
    /\ UNCHANGED <<plainUnchanged, receiver, pc>>

NextPlain ==
    \/ HrSymmEvent
    \/ HrHybridSmEvent
    \/ LcdEvent
    \/ ProbCacheProcessEvent
    \/ Evict

SpecPlain == InitPlain /\ [][NextPlain]_vars

----------------------------------------------------------------------------
(* SpecBC: the request phase of one process_event of the breadcrumb      *)
(* strategies (LIRA_BC, TFIB_BC): a single request follows the freshest  *)
(* hint off the path and comes back when the walk fails                  *)

Breadcrumbs == {"LIRA_BC", "TFIB_BC"}

InitBC ==
    /\ EntryIdle
    /\ strategy \in Breadcrumbs
    /\ extra_quota = 0 /\ fan_out = 0 /\ quota_increment = 0
    /\ rsn_timeout = Inf /\ limit_replica = FALSE /\ p = QScale
    /\ cache_size = [n \in Routers |-> 1]
    /\ authoritative_cache = None
    /\ LceIdle
    /\ receiver \in Receivers
    /\ cache \in CacheInits
    /\ \E H \in SUBSET HintLinks, old \in {{}, {"y"}} :
           rsn = [n \in Nodes |-> HintsOf(KeyedTableOf(n, H), old)]
    /\ rsn_present = {n \in Nodes : rsn[n] # <<>>}
    /\ rsn_table = <<>> /\ n_quotas = <<>>
    /\ pc = "start"
    /\ hop = 0 /\ quota = 0
    /\ on_path_trail = <<>> /\ off_path_trails = <<>>
    /\ on_path_serving_node = None /\ off_path_serving_node = None
    /\ cands = <<>> /\ trail = <<>> /\ positions = <<>> /\ walk = <<>>
    /\ sorted_paths = <<>> /\ visited = {} /\ first = FALSE
    /\ ev = [requests |-> <<>>, outcome |-> None, explored |-> <<>>,
             reports |-> <<>>, invalidated |-> <<>>,
             \* return phase: insert_nexthop, forward_content_hop and
             \* put_content calls in the order they were made
             installs |-> <<>>, contents |-> <<>>, puts |-> <<>>]

bcUnchanged ==
    <<entryVars, params, retVars, cache, rsn_present, rsn_table, n_quotas,
      quota, on_path_trail, off_path_trails, cands, positions>>

(* controller.forward_request_hop(u, v) *)
BcForward(e, u, v) ==
    [e EXCEPT !.requests = Append(@, <<u, v>>), !.outcome = None,
              !.explored = <<>>]

BcStartSession ==
    /\ pc = "start"
    /\ pc' = "hop"
    /\ hop' = 1
    /\ UNCHANGED <<bcUnchanged, rsn, on_path_serving_node,
                   off_path_serving_node, trail, walk, ev>>

(* the lookup at the on-path node v:                                     *)
(* rsn_entry.get_freshest_except_nodes(time, [u, next_hop])              *)
BcOnPathLookup ==
    IF has_rsn_table(v_hop) /\ v_hop \in rsn_present /\ v_hop # source
    THEN get_freshest_except_nodes(rsn[v_hop], rsn_timeout, EventTime,
                                   {u_hop, next_hop})
    ELSE [nexthops |-> rsn[v_hop], result |-> <<>>]

(* on-path hop: cache hit at v *)
BcOnPathHit ==
    /\ pc = "hop"
    /\ OnPathCacheHit
    /\ on_path_serving_node' = v_hop
    /\ pc' = "report"
    /\ ev' = BcForward(ev, u_hop, v_hop)
    /\ UNCHANGED <<bcUnchanged, rsn, hop, off_path_serving_node, trail,
                   walk>>

(* on-path hop: miss and no hint to follow, the next hop is next *)
BcOnPathMiss ==
    /\ pc = "hop"
    /\ ~OnPathCacheHit
    /\ BcOnPathLookup.result = <<>>
    /\ hop < Len(Path) - 1
    /\ rsn' = [rsn EXCEPT ![v_hop] = BcOnPathLookup.nexthops]
    /\ hop' = hop + 1
    /\ ev' = BcForward(ev, u_hop, v_hop)
    /\ UNCHANGED <<bcUnchanged, pc, on_path_serving_node,
                   off_path_serving_node, trail, walk>>

(* "for concluded without break. Get content from source" *)
BcReachedSource ==
    /\ pc = "hop"
    /\ ~OnPathCacheHit
    /\ BcOnPathLookup.result = <<>>
    /\ hop = Len(Path) - 1
    /\ on_path_serving_node' = v_hop
    /\ pc' = "report"
    /\ ev' = BcForward(ev, u_hop, v_hop)
    /\ UNCHANGED <<bcUnchanged, rsn, hop, off_path_serving_node, trail,
                   walk>>

(* on-path hop: miss and a hint leads off the path: start detouring *)
BcStartDetour ==
    /\ pc = "hop"
    /\ ~OnPathCacheHit
    /\ BcOnPathLookup.result # <<>>
    /\ rsn' = [rsn EXCEPT ![v_hop] = BcOnPathLookup.nexthops]
    /\ trail' = <<v_hop>>
    /\ walk' = [prev_hop |-> u_hop, curr_hop |-> v_hop,
                rsn_hop |-> BcOnPathLookup.result[1].nexthop]
    /\ pc' = "walk"
    /\ ev' = BcForward(ev, u_hop, v_hop)
    /\ UNCHANGED <<bcUnchanged, hop, on_path_serving_node,
                   off_path_serving_node>>

(* "if rsn_hop in trail: break": the on-path loop goes on with its next *)
(* hop                                                                   *)
BcWalkLoop ==
    /\ pc = "walk"
    /\ walk.rsn_hop # None
    /\ InTrail(trail, walk.rsn_hop)
    /\ walk' = [walk EXCEPT !.prev_hop = walk.curr_hop,
                            !.curr_hop = walk.rsn_hop]
    /\ hop' = hop + 1
    /\ pc' = "hop"
    /\ ev' = [BcForward(ev, walk.curr_hop, walk.rsn_hop) EXCEPT
                 !.outcome = "loop", !.explored = trail]
    /\ UNCHANGED <<bcUnchanged, rsn, on_path_serving_node,
                   off_path_serving_node, trail>>

(* the content is found on the trail *)
BcWalkHit ==
    /\ pc = "walk"
    /\ walk.rsn_hop # None
    /\ ~InTrail(trail, walk.rsn_hop)
    /\ OffPathHit(walk.rsn_hop)
    /\ trail' = Append(trail, walk.rsn_hop)
    /\ walk' = [walk EXCEPT !.prev_hop = walk.curr_hop,
                            !.curr_hop = walk.rsn_hop]
    /\ off_path_serving_node' = walk.rsn_hop
    /\ pc' = "report"
    /\ ev' = [BcForward(ev, walk.curr_hop, walk.rsn_hop) EXCEPT
                 !.outcome = "hit", !.explored = trail']
    /\ UNCHANGED <<bcUnchanged, rsn, hop, on_path_serving_node>>

(* miss at the trail node: its freshest hint, the previous hop excepted *)
BcWalkAdvance ==
    /\ pc = "walk"
    /\ walk.rsn_hop # None
    /\ ~InTrail(trail, walk.rsn_hop)
    /\ ~OffPathHit(walk.rsn_hop)
    /\ trail' = Append(trail, walk.rsn_hop)
    /\ LET curr == walk.rsn_hop
           r == IF has_rsn_table(curr) /\ curr \in rsn_present
                THEN get_freshest_except_node(rsn[curr], rsn_timeout,
                                              EventTime, walk.curr_hop)
                ELSE [nexthops |-> rsn[curr], result |-> <<>>]
       IN  /\ rsn' = [rsn EXCEPT ![curr] = r.nexthops]
           /\ walk' = [prev_hop |-> walk.curr_hop, curr_hop |-> curr,
                       rsn_hop |-> IF r.result = <<>> THEN None
                                   ELSE r.result[1].nexthop]
    /\ ev' = BcForward(ev, walk.curr_hop, walk.rsn_hop)
    /\ UNCHANGED <<bcUnchanged, pc, hop, on_path_serving_node,
                   off_path_serving_node>>

(* else of the while: invalidate the trail and travel it in reverse;    *)
(* TFIB_BC reports the failure here                                      *)
BcWalkDeadEnd ==
    /\ pc = "walk"
    /\ walk.rsn_hop = None
    /\ rsn' = invalidate_trail(rsn, trail, 1)
    /\ hop' = hop + 1
    /\ pc' = "hop"
    /\ ev' = [ev EXCEPT
                 !.requests = @ \o Links(Reverse(trail)),
                 !.invalidated = Append(@, trail),
                 !.reports = IF strategy = "TFIB_BC"
                             THEN Append(@, [cost |-> 0, success |-> FALSE])
                             ELSE @,
                 !.outcome = "dead_end",
                 !.explored = trail]
    /\ UNCHANGED <<bcUnchanged, on_path_serving_node, off_path_serving_node,
                   trail, walk>>

(* after the on-path loop: controller.follow_trail(0, success); the     *)
(* content is returned next                                              *)
BcReport ==
    /\ pc = "report"
    /\ pc' = "return"
    /\ ev' = [ev EXCEPT
                 !.reports =
                     IF strategy = "LIRA_BC" \/ off_path_serving_node # None
                     THEN Append(@, [cost |-> 0,
                                     success |-> off_path_serving_node # None])
                     ELSE @]
    /\ UNCHANGED <<bcUnchanged, rsn, hop, on_path_serving_node,
                   off_path_serving_node, trail, walk>>

(* state threaded through the loops of the return phase *)
BcReturnState ==
    [rsn |-> rsn, rsn_present |-> rsn_present, cache |-> cache,
     installs |-> <<>>, contents |-> <<>>, puts |-> <<>>,
     placement |-> FALSE]

(* "rsn_entry = get_rsn(node) if has_rsn_table(node) else None;          *)
(*  rsn_entry = RsnEntry() if rsn_entry is None else rsn_entry;          *)
(*  rsn_entry.insert_nexthop(nexthop, dest, distance, time);             *)
(*  put_rsn(node, rsn_entry)"                                            *)
BcInstall(st, node, nexthop, dest, distance) ==
    LET old   == IF has_rsn_table(node) /\ node \in st.rsn_present
                 THEN st.rsn[node] ELSE <<>>
        entry == insert_nexthop(old, rsn_timeout, nexthop, dest, distance,
                                EventTime, FALSE)
    IN  [st EXCEPT
            !.rsn = IF has_rsn_table(node)
                    THEN [@ EXCEPT ![node] = entry] ELSE @,
            !.rsn_present = IF has_rsn_table(node)
                            THEN @ \cup {node} ELSE @,
            !.installs = Append(@, [at |-> node, nexthop |-> nexthop,
                                    destination |-> dest,
                                    distance |-> distance])]

BcPut(st, node, put) ==
    [st EXCEPT !.cache = IF put THEN put_content(@, node) ELSE @,
               !.puts = IF put THEN Append(@, node) ELSE @]

(* the loop over the reversed on-path route when the content was found  *)
(* on the path; h is the index of prev_hop                               *)
RECURSIVE BcOnPathReturn(_, _, _, _)
BcOnPathReturn(st, path, h, rnd) ==
    IF h >= Len(path) THEN st
    ELSE LET prev_hop == path[h]
             curr_hop == path[h + 1]
             distance == HintDistance(Len(path), h)
             st1 == IF strategy = "LIRA_BC" \/ ~st.placement
                    THEN BcInstall(st, prev_hop, curr_hop, curr_hop,
                                   distance)
                    ELSE BcInstall(st, curr_hop, prev_hop, prev_hop,
                                   distance)
             put == IF strategy = "LIRA_BC"
                    THEN has_cache(curr_hop) /\ CachingDraw(rnd[curr_hop])
                    ELSE /\ ~st.placement /\ has_cache(curr_hop)
                         /\ (rnd[curr_hop] < prob_cache
                             \/ h = Len(path) - 1)
             st2 == [BcPut(st1, curr_hop, put) EXCEPT
                        !.placement = @ \/ (put /\ strategy = "TFIB_BC"),
                        !.contents = Append(@, <<prev_hop, curr_hop>>)]
         IN  BcOnPathReturn(st2, path, h + 1, rnd)

(* the loop "for hop in range(len(off_path_trail)-1, 0, -1)" over the   *)
(* trail; k is the index of curr_hop                                     *)
RECURSIVE BcTrailReturn(_, _, _, _, _)
BcTrailReturn(st, tr, k, distance, rnd) ==
    IF k < 2 THEN st
    ELSE LET curr_hop == tr[k]
             prev_hop == tr[k - 1]
             st1 == BcInstall(st, prev_hop, curr_hop, tr[Len(tr)], distance)
             st2 == IF strategy = "LIRA_BC"
                    THEN [BcPut(BcInstall(st1, curr_hop, prev_hop, tr[1],
                                          Len(tr)),
                                prev_hop,
                                has_cache(prev_hop)
                                /\ CachingDraw(rnd[prev_hop]))
                          EXCEPT !.contents = Append(@, <<curr_hop,
                                                          prev_hop>>)]
                    ELSE st1
         IN  BcTrailReturn(st2, tr, k - 1, distance + 1, rnd)

(* from the detour point down to the receiver: no hint is installed;    *)
(* LIRA_BC calls put_content(prev_hop) when curr_hop has a cache         *)
RECURSIVE BcDownReturn(_, _, _, _)
BcDownReturn(st, path, h, rnd) ==
    IF h >= Len(path) THEN st
    ELSE LET prev_hop == path[h]
             curr_hop == path[h + 1]
             put == /\ strategy = "LIRA_BC" /\ has_cache(curr_hop)
                    /\ CachingDraw(rnd[curr_hop])
         IN  BcDownReturn([BcPut(st, prev_hop, put) EXCEPT
                              !.contents = Append(@, <<prev_hop,
                                                       curr_hop>>)],
                          path, h + 1, rnd)

(* the return phase of LiraBC / TfibBC *)
BcReturnPhase(rnd) ==
    IF on_path_serving_node # None
    THEN BcOnPathReturn(BcReturnState,
                        Reverse(shortest_path_between(receiver,
                                                      on_path_serving_node)),
                        1, rnd)
    ELSE BcDownReturn(BcTrailReturn(BcReturnState, trail, Len(trail), 1,
                                    rnd),
                      Reverse(shortest_path_between(receiver, trail[1])),
                      1, rnd)

BcReturn ==
    /\ pc = "return"
    /\ pc' = "done"
    /\ \E rnd \in [Routers -> Draws] :
           LET st == BcReturnPhase(rnd)
           IN  /\ rsn' = st.rsn
               /\ rsn_present' = st.rsn_present
               /\ cache' = st.cache
               /\ ev' = [ev EXCEPT !.installs = st.installs,
                                   !.contents = st.contents,
                                   !.puts = st.puts]
    /\ UNCHANGED <<entryVars, params, retVars, rsn_table, n_quotas, quota,
                   on_path_trail, off_path_trails, cands, positions, hop,
                   on_path_serving_node, off_path_serving_node, trail,
                   walk>>

NextBC ==
    \/ BcStartSession
    \/ BcOnPathHit
    \/ BcOnPathMiss
    \/ BcReachedSource
    \/ BcStartDetour
    \/ BcWalkLoop
    \/ BcWalkHit
    \/ BcWalkAdvance
    \/ BcWalkDeadEnd
    \/ BcReport
    \/ BcReturn

SpecBC == InitBC /\ [][NextBC]_vars

----------------------------------------------------------------------------
(* SpecLce: successive process_events of LIRA_LCE, LIRA_CHOICE and       *)
(* LIRA_PROB_CACHE on the same topology, starting from empty caches, for *)
(* two contents; the hint table of a router maps a content to one next   *)
(* hop                                                                    *)

MaxRequests == 3      \* process_event calls in a row
MaxDetour == 2        \* largest max_detour

Contents == {"c1", "c2"}
LceStrategies == {"LIRA_LCE", "LIRA_CHOICE", "LIRA_PROB_CACHE"}
(* the receivers the requests come from *)
LceReceivers == {"r1", "r3"}

(* deployments of the caches: every router, or only x and y *)
LceCacheSizes == {[n \in Routers |-> 1], [n \in {"x", "y"} |-> 1]}

(* the hints for c1 in the tables when the first request comes in *)
LceHintInits ==
    {[n \in Routers |->
         [c \in Contents |-> IF c = "c1" THEN h[n] ELSE None]] :
     h \in {[a |-> None, b |-> None, x |-> None, y |-> None],
            [a |-> None, b |-> None, x |-> "y", y |-> "b"],
            [a |-> "x", b |-> None, x |-> "y", y |-> "a"],
            [a |-> "r1", b |-> "a", x |-> None, y |-> None],
            [a |-> "y", b |-> None, x |-> None, y |-> "a"],
            [a |-> "x", b |-> "y", x |-> None, y |-> "x"]}}

(* one call of the controller within a session for content c *)
LceCall(name, u, v, c) == [call |-> name, u |-> u, v |-> v, content |-> c]

(* the working state of one process_event *)
LceState(r) ==
    [stored |-> stored, hints |-> hints, next_hops |-> next_hops,
     calls |-> <<>>, serving_node |-> None, curr_hop |-> r,
     rsn_routing |-> TRUE, rsn_hop_count |-> 0,
     \* observation: the positions in calls of the hops made on a hint,
     \* the hints found pointing back (the node the request is at, the
     \* node it came from, the position of the remove_rsn call, the
     \* tables before and after it), the hops the contents were last
     \* forwarded to, the hops they were forwarded to when they were
     \* last served or inserted, KeyError raised
     off_path |-> <<>>, back |-> <<>>, last_forwarded |-> ev.last_forwarded,
     last_kept |-> ev.last_kept, error |-> FALSE]

LceLog(st, name, u, v, c) ==
    [st EXCEPT !.calls = Append(@, LceCall(name, u, v, c))]

(* an LRU cache: the content becomes the most recently used one *)
LceTouch(seq, c) == <<c>> \o SelectSeq(seq, LAMBDA e : e # c)

(* controller.get_content(v): hit at the source or at a cache storing c *)
LceHit(st, v, c) ==
    v = source \/ (has_cache(v) /\ Contains(st.stored[v], c))

LceGetContent(st, v, c) ==
    LET asked == LceLog(st, "get_content", v, None, c)
    IN  IF has_cache(v) /\ Contains(st.stored[v], c)
        THEN [asked EXCEPT !.stored[v] = LceTouch(@, c)]
        ELSE asked

(* controller.put_content(v): the evicted content, if any *)
LceEvicted(seq, c, size) ==
    IF Contains(seq, c) \/ Len(seq) < size THEN None ELSE seq[Len(seq)]

LcePutContent(seq, c, size) == Take(LceTouch(seq, c), size)

(* controller.remove_rsn(node) and put_rsn(node, next_hop, content); a   *)
(* node without a hint table is left alone                               *)
LceRemoveRsn(hs, node, c) ==
    IF node \in DOMAIN hs THEN [hs EXCEPT ![node][c] = None] ELSE hs

LcePutRsn(hs, node, nexthop, c) ==
    IF node \in DOMAIN hs THEN [hs EXCEPT ![node][c] = nexthop] ELSE hs

(* "if rsn_hop_count >= self.max_detour" *)
DetourOver_one_late(count) == count > max_detour
DetourOver(count) == count >= max_detour

(* the loop "while rsn_hop is not None" of the detour *)
RECURSIVE LceDetour(_, _, _, _)
LceDetour(st, c, prev_hop, rsn_hop) ==
    IF rsn_hop = None THEN st
    ELSE IF rsn_hop = prev_hop
    THEN \* "self.controller.remove_rsn(rsn_hop)"
         [LceLog(st, "remove_rsn", rsn_hop, None, c) EXCEPT
             !.hints = LceRemoveRsn(@, rsn_hop, c),
             !.back = Append(@, [at |-> st.curr_hop, from |-> prev_hop,
                                 call |-> Len(st.calls) + 1,
                                 hints |-> st.hints,
                                 after |-> LceRemoveRsn(st.hints, rsn_hop,
                                                        c)])]
    ELSE IF DetourOver(st.rsn_hop_count) THEN st
    ELSE LET moved == [LceLog(st, "forward_request_hop", st.curr_hop,
                              rsn_hop, c)
                       EXCEPT !.off_path = Append(@, Len(st.calls) + 1),
                              !.rsn_hop_count = @ + 1,
                              !.curr_hop = rsn_hop,
                              !.rsn_routing = FALSE]
             asks  == rsn_hop = source \/ has_cache(rsn_hop)
             asked == IF asks THEN LceGetContent(moved, rsn_hop, c)
                      ELSE moved
         IN  IF asks /\ LceHit(st, rsn_hop, c)
             THEN [asked EXCEPT !.serving_node = rsn_hop]
             ELSE IF has_rsn_table(rsn_hop)
             THEN LceDetour(LceLog(asked, "get_rsn", rsn_hop, None, c), c,
                            st.curr_hop, asked.hints[rsn_hop][c])
             ELSE asked

(* the loop "for hop in range(1, len(path))" over the shortest path to   *)
(* the source; i is the index of u                                     *)
RECURSIVE LcePath(_, _, _, _)
LcePath(st, c, path, i) ==
    IF i >= Len(path)
    THEN \* "for concluded without break. Get content from source"
         [LceGetContent(st, path[Len(path)], c) EXCEPT
             !.serving_node = path[Len(path)]]
    ELSE LET u     == path[i]
             v     == path[i + 1]
             fwd   == LceLog(st, "forward_request_hop", u, v, c)
             asked == IF has_cache(v) THEN LceGetContent(fwd, v, c) ELSE fwd
         IN  IF has_cache(v) /\ LceHit(st, v, c)
             THEN [asked EXCEPT !.serving_node = v]
             ELSE IF ~(asked.rsn_routing /\ has_rsn_table(v))
             THEN LcePath(asked, c, path, i + 1)
             ELSE LET rsn_hop  == asked.hints[v][c]
                      onward == path[i + 2]
                      looked   == LceLog(asked, "get_rsn", v, None, c)
                  IN  IF rsn_hop = None \/ rsn_hop = onward
                      THEN LcePath(looked, c, path, i + 1)
                      ELSE LET w == LceDetour([looked EXCEPT !.curr_hop = v],
                                              c, u, rsn_hop)
                           IN  \* "if curr_hop != v: break" and
                               \* "if serving_node is not None: break"
                               IF w.serving_node # None \/ w.curr_hop # v
                               THEN w
                               ELSE LcePath(w, c, path, i + 1)

(* the loop "while serving_node is None", given up after rounds rounds *)
RECURSIVE LceRequest(_, _, _)
LceRequest(st, c, rounds) ==
    IF st.serving_node # None \/ rounds = 0 THEN st
    ELSE LceRequest(LcePath(st, c,
                            shortest_path_between(st.curr_hop, source), 1),
                    c, rounds - 1)

(* self.next_hop[v][content] = next_hop *)
RecordNextHop_never(map, c, to) == map
RecordNextHop(map, c, to) ==
    [k \in DOMAIN map \cup {c} |-> IF k = c THEN to ELSE map[k]]

(* self.next_hop[v].pop(cache_evicted) *)
PopNextHop(map, c) == [k \in DOMAIN map \ {c} |-> map[k]]

(* "if self.controller.get_rsn(v) is not None: remove_rsn(v)" *)
RemoveHintOnInsert_never(st, v, c) == LceLog(st, "get_rsn", v, None, c)
RemoveHintOnInsert(st, v, c) ==
    LET looked == LceLog(st, "get_rsn", v, None, c)
    IN  IF st.hints[v][c] # None
        THEN [LceLog(looked, "remove_rsn", v, None, c) EXCEPT
                 !.hints = LceRemoveRsn(@, v, c)]
        ELSE looked

(* the statements under "if self.view.has_rsn_table(v)" of the return    *)
(* loop                                                                  *)
LceHintStep(st, c, v, onward, cache_inserted, cache_evicted) ==
    LET a == IF cache_inserted
             THEN LET removed == RemoveHintOnInsert(st, v, c)
                  IN  IF rsn_on_evict
                      THEN [removed EXCEPT
                               !.next_hops[v] = RecordNextHop(@, c, onward)]
                      ELSE removed
             ELSE [LceLog(st, "put_rsn", v, onward, c) EXCEPT
                      !.hints = LcePutRsn(@, v, onward, c)]
    IN  IF rsn_on_evict /\ cache_evicted # None
        THEN IF cache_evicted \in DOMAIN a.next_hops[v]
             THEN [LceLog(a, "put_rsn", v, a.next_hops[v][cache_evicted],
                          cache_evicted)
                   EXCEPT !.hints = LcePutRsn(@, v,
                                              a.next_hops[v][cache_evicted],
                                              cache_evicted),
                          !.next_hops[v] = PopNextHop(@, cache_evicted)]
             ELSE [a EXCEPT !.error = TRUE]      \* KeyError
        ELSE a

(* whether the content is inserted in the cache of v on the way back *)
LceInserted(v, path, h, x, rnd, choice) ==
    /\ has_cache(v)
    /\ CASE strategy = "LIRA_LCE" -> CachingDraw(rnd[v])
         [] strategy = "LIRA_CHOICE" -> v = choice
         [] strategy = "LIRA_PROB_CACHE" ->
                DrawBelow(rnd[v],
                          ProbCacheLaw(SumSizes(path, h), v, x,
                                       Cardinality({j \in 1..Len(path) :
                                                       has_cache(path[j])})))

(* the return loop over shortest_path(serving_node, receiver); h is the  *)
(* index of u                                                            *)
RECURSIVE LceReturn(_, _, _, _, _, _, _, _)
LceReturn(st, c, r, path, h, x, rnd, choice) ==
    IF st.error THEN st
    ELSE IF h >= Len(path) THEN LceLog(st, "end_session", None, None, c)
    ELSE LET u   == path[h]
             v   == path[h + 1]
             st1 == IF u = st.serving_node /\ has_rsn_table(u)
                       /\ rsn_on_evict
                    THEN [st EXCEPT !.next_hops[u] = RecordNextHop(@, c, v)]
                    ELSE st
             st2 == [LceLog(st1, "forward_content_hop", u, v, c) EXCEPT
                        !.last_forwarded[u][c] = v,
                        !.last_kept[u][c] =
                            IF u = st.serving_node THEN v ELSE @]
         IN  IF v = r THEN LceReturn(st2, c, r, path, h + 1, x, rnd, choice)
             ELSE LET onward == path[h + 2]
                      x1 == IF strategy = "LIRA_PROB_CACHE" /\ has_cache(v)
                            THEN CountCache(x, v) ELSE x
                      cache_inserted == LceInserted(v, path, h, x1, rnd,
                                                    choice)
                      cache_evicted ==
                          IF cache_inserted
                          THEN LceEvicted(st2.stored[v], c, cache_size[v])
                          ELSE None
                      st3 == IF cache_inserted
                             THEN [LceLog(st2, "put_content", v,
                                          cache_evicted, c)
                                   EXCEPT !.stored[v] =
                                       LcePutContent(@, c, cache_size[v]),
                                          !.last_kept[v][c] = onward]
                             ELSE st2
                      st4 == IF has_rsn_table(v)
                             THEN LceHintStep(st3, c, v, onward,
                                              cache_inserted, cache_evicted)
                             ELSE st3
                  IN  LceReturn(st4, c, r, path, h + 1, x1, rnd, choice)

(* the forward phase of process_event(time, r, c, log) *)
LceForward(r, c) ==
    LceRequest(LceLog(LceState(r), "start_session", None, None, c), c,
               Cardinality(Nodes))

(* the caches among path[1:-1] of a return path *)
LceCachesDown(path) ==
    {path[i] : i \in 2..(Len(path) - 1)} \cap DOMAIN cache_size

InitLce ==
    /\ EntryIdle
    /\ strategy \in LceStrategies
    /\ extra_quota = 0 /\ fan_out = 0 /\ quota_increment = 0
    /\ rsn_timeout = 0 /\ limit_replica = FALSE
    /\ p \in (IF strategy = "LIRA_LCE" THEN Probabilities ELSE {QScale})
    /\ cache_size \in LceCacheSizes
    /\ authoritative_cache = None
    /\ max_detour \in 0..MaxDetour
    /\ rsn_on_evict \in BOOLEAN
    /\ stored = [n \in DOMAIN cache_size |-> <<>>]
    /\ hints \in LceHintInits
    /\ next_hops = [n \in Nodes |-> <<>>]
    /\ receiver = None /\ cache = {}
    /\ rsn = <<>> /\ rsn_present = {} /\ rsn_table = <<>> /\ n_quotas = <<>>
    /\ pc = "idle"
    /\ hop = 0 /\ quota = 0
    /\ on_path_trail = <<>> /\ off_path_trails = <<>>
    /\ on_path_serving_node = None /\ off_path_serving_node = None
    /\ cands = <<>> /\ trail = <<>> /\ positions = <<>> /\ walk = <<>>
    /\ sorted_paths = <<>> /\ visited = {} /\ first = FALSE
    /\ ev = [n |-> 0, content |-> None, calls |-> <<>>,
             serving_node |-> None, off_path |-> <<>>, back |-> <<>>,
             last_forwarded |-> [n \in Nodes |-> [c \in Contents |-> None]],
             last_kept |-> [n \in Nodes |-> [c \in Contents |-> None]],
             before |-> [stored |-> stored, hints |-> hints,
                         next_hops |-> next_hops]]

(* process_event(time, r, c, log) has run and left the state o *)
LceProcessed(r, c, o) ==
    /\ receiver' = r
    /\ stored' = o.stored
    /\ hints' = o.hints
    /\ next_hops' = o.next_hops
    /\ pc' = IF o.error THEN "error" ELSE "idle"
    /\ ev' = [n |-> ev.n + 1, content |-> c, calls |-> o.calls,
              serving_node |-> o.serving_node, off_path |-> o.off_path,
              back |-> o.back, last_forwarded |-> o.last_forwarded,
              last_kept |-> o.last_kept,
              before |-> [stored |-> stored, hints |-> hints,
                          next_hops |-> next_hops]]
    /\ UNCHANGED <<entryVars, strategy, extra_quota, fan_out,
                   quota_increment, rsn_timeout, limit_replica, p,
                   cache_size, authoritative_cache, max_detour,
                   rsn_on_evict, retVars, cache, rsn, rsn_present,
                   rsn_table, n_quotas, hop, quota, on_path_trail,
                   off_path_trails, on_path_serving_node,
                   off_path_serving_node, cands, trail, positions, walk>>

(* process_event(time, r, c, log) for one random number of DrawSet, the *)
(* same at every cache on the way back, or for the random choice among  *)
(* these caches                                                         *)
LceEvent(r, c, DrawSet) ==
    LET req  == LceForward(r, c)
        path == shortest_path_between(req.serving_node, r)
        down == LceCachesDown(path)
    IN  IF req.serving_node = None THEN LceProcessed(r, c, req)
        ELSE IF strategy = "LIRA_CHOICE"
        THEN \E choice \in (IF down = {} THEN {None} ELSE down) :
                 LceProcessed(r, c, LceReturn(req, c, r, path, 1, 0, <<>>,
                                              choice))
        ELSE \E draw \in DrawSet :
                 LceProcessed(r, c, LceReturn(req, c, r, path, 1, 0,
                                              [n \in down |-> draw], None))

(* LiraLce.process_event: random.random() <= p at every cache on the way *)
(* back                                                                  *)
LiraLceEvent ==
    /\ pc = "idle" /\ strategy = "LIRA_LCE" /\ ev.n < MaxRequests
    /\ \E r \in LceReceivers, c \in Contents :
           LceEvent(r, c, IF p = QScale THEN {QScale} ELSE Draws)

(* LiraChoice.process_event: random.choice(caches) *)
LiraChoiceEvent ==
    /\ pc = "idle" /\ strategy = "LIRA_CHOICE" /\ ev.n < MaxRequests
    /\ \E r \in LceReceivers, c \in Contents : LceEvent(r, c, {})

(* LiraProbCache.process_event: random.random() < prob_cache *)
LiraProbCacheEvent ==
    /\ pc = "idle" /\ strategy = "LIRA_PROB_CACHE" /\ ev.n < MaxRequests
    /\ \E r \in LceReceivers, c \in Contents :
           LceEvent(r, c, ProbCacheDraws)

NextLce ==
    \/ LiraLceEvent
    \/ LiraChoiceEvent
    \/ LiraProbCacheEvent

SpecLce == InitLce /\ [][NextLce]_vars

----------------------------------------------------------------------------
(* Properties                                                            *)

Failed == ev.outcome \in {"loop", "dead_end"}

(* the hint of link <<n, m>> is in the keyed table of n *)
HasHint(n, m) == Contains(rsn_table[n], m)

(* position i (1-based) of node n was consulted by the finished walk *)
Consulted(n, i) ==
    \E j \in 1..Len(ev.positions) :
        ev.trail[j] = n /\ ev.positions[j] + 1 = i

(* C1: the forward phase of process_event ends with a cache hit (on-path *)
(* or off-path) or with the source reached, so a serving node and a      *)
(* return path always exist.                                             *)
C1_ForwardPhaseServes ==
    pc = "return" => (on_path_serving_node # None \/ off_path_trails # <<>>)

(* C2 as stated: when the walk of a keyed strategy stops by loop or dead *)
(* end, every hint link the request traversed in the trail, the link     *)
(* that led back to the repeated node included, has been removed.        *)
C2_EveryTraversedLinkRemoved ==
    (keyed /\ Failed) =>
        /\ \A i \in 1..(Len(ev.trail) - 1) :
               ~HasHint(ev.trail[i], ev.trail[i + 1])
        /\ ev.closing # <<>> => ~HasHint(ev.closing[1], ev.closing[2])

(* C2 amended: when the walk of a keyed strategy stops by loop or dead   *)
(* end, the hint of every link between consecutive trail nodes, starting *)
(* at the detour point, has been removed; the hint at the last trail     *)
(* node that led back to the repeated node of a loop is left in place.   *)
C2_TrailLinksRemoved ==
    (keyed /\ Failed) =>
        /\ \A i \in 1..(Len(ev.trail) - 1) :
               ~HasHint(ev.trail[i], ev.trail[i + 1])
        /\ ev.closing # <<>> => HasHint(ev.closing[1], ev.closing[2])

C2_Witness ==
    /\ keyed /\ ev.outcome = "loop" /\ Len(ev.trail) = 3
    /\ ev.closing = <<"y", "a">>

(* C3: the off-path walk never holds a node twice in its trail and makes *)
(* at most as many steps as there are nodes before it ends.              *)
C3_WalkBounded ==
    pc \in {"walk", "cand"} =>
        /\ \A i, j \in 1..Len(trail) : i # j => trail[i] # trail[j]
        /\ Len(trail) <= Cardinality(Nodes)
        /\ ev.steps <= Cardinality(Nodes)

C3_Witness == ev.outcome = "loop" /\ ev.steps = 3 /\ Len(ev.trail) = 3

(* C4: an RsnEntry never holds two hints with the same nexthop. *)
C4_UniqueNexthop ==
    \A i, j \in 1..Len(nexthops) :
        i # j => nexthops[i].nexthop # nexthops[j].nexthop

(* a nexthop inserted again after another one: updated in place *)
C4_Witness ==
    /\ last_op.name = "insert_nexthop"
    /\ Len(nexthops) = 2
    /\ nexthops[1].nexthop = last_op.node
    /\ nexthops[1].time_stamp > nexthops[2].time_stamp

QueryNames == {"get_nexthop", "get_best_k_entry", "get_freshest_entry",
               "get_freshest_except_node", "get_topk_freshest_except_node",
               "get_freshest_except_nodes"}

(* C5: no query method of RsnEntry returns a hint that is expired at the *)
(* time of the query.                                                    *)
C5_NoExpiredHintReturned ==
    last_op.name \in QueryNames =>
        \A i \in 1..Len(result) :
            ~is_expired(result[i], now, expiration_interval)

(* C6: get_best_k_entry and get_topk_freshest_except_node return at most *)
(* k hints, never the excluded node, never an expired hint.              *)
C6_TopKBounded ==
    last_op.name \in {"get_best_k_entry", "get_topk_freshest_except_node"} =>
        /\ Len(result) <= last_op.k
        /\ \A i \in 1..Len(result) :
               /\ result[i].nexthop # last_op.node
               /\ ~is_expired(result[i], now, expiration_interval)

(* two live hints, one of them the excluded node, k = 1 *)
C6_Witness ==
    /\ last_op.name = "get_best_k_entry"
    /\ last_op.k = 1
    /\ Len(nexthops) = 2
    /\ Len(result) = 1
    /\ \E i \in 1..2 : nexthops[i].nexthop = last_op.node

(* C7: in the dynamic-cost variants every per-position quota counter     *)
(* stays >= 1.                                                           *)
C7_QuotaAtLeastOne ==
    dynamic => \A n \in Nodes : \A i \in 1..TableSize :
                   n_quotas[n][i] >= QScale

(* a failure on a counter already at 1, and a success elsewhere before *)
C7_Witness ==
    /\ dynamic /\ Failed
    /\ \E j \in 1..Len(ev.positions) :
           ev.quotas_before[ev.trail[j]][ev.positions[j] + 1] = QScale
    /\ off_path_trails # <<>>

(* C8 as stated: every failing detour strictly decreases the quota of    *)
(* each position it went through, and the quota never drops below 1.     *)
C8_FailureStrictlyDecreases ==
    (dynamic /\ Failed) =>
        \A j \in 1..Len(ev.positions) :
            LET before == ev.quotas_before[ev.trail[j]][ev.positions[j] + 1]
                after  == n_quotas[ev.trail[j]][ev.positions[j] + 1]
            IN  after < before /\ after >= QScale

(* C8 amended: a failing detour halves the quota of each position it     *)
(* went through when that quota is >= 2 and sets it to 1 when it is      *)
(* below 2: it strictly decreases every quota > 1, leaves a quota of 1   *)
(* unchanged, and never drops below 1.                                   *)
C8_FailureHalvesDownToOne ==
    (dynamic /\ Failed) =>
        \A j \in 1..Len(ev.positions) :
            LET before == ev.quotas_before[ev.trail[j]][ev.positions[j] + 1]
                after  == n_quotas[ev.trail[j]][ev.positions[j] + 1]
            IN  /\ after >= QScale
                /\ before >= 2 * QScale => 2 * after = before
                /\ before < 2 * QScale => after = QScale
                /\ before > QScale => after < before
                /\ before = QScale => after = before

(* a failing detour through two positions that brings a quota above 1 down to 1 *)
C8_Witness ==
    /\ dynamic /\ Failed
    /\ \E j \in 1..Len(ev.positions) :
           /\ ev.quotas_before[ev.trail[j]][ev.positions[j] + 1] > QScale
           /\ n_quotas[ev.trail[j]][ev.positions[j] + 1] = QScale
    /\ Len(ev.positions) >= 2

(* C9: a successful detour adds exactly quota_increment to the quota of  *)
(* each position consulted along the trail and changes no other quota.   *)
C9_SuccessAddsIncrement ==
    (dynamic /\ ev.outcome = "hit") =>
        \A n \in Nodes : \A i \in 1..TableSize :
            n_quotas[n][i] = ev.quotas_before[n][i]
                             + (IF Consulted(n, i) THEN quota_increment
                                ELSE 0)

C9_Witness ==
    /\ dynamic /\ ev.outcome = "hit"
    /\ Len(ev.positions) = 2
    /\ quota_increment # QScale

(* serving node of plain shortest-path forwarding: the first cache hit   *)
(* on the path, else the source                                          *)
RECURSIVE PlainServingNode(_, _)
PlainServingNode(path, i) ==
    IF i >= Len(path) THEN path[Len(path)]
    ELSE IF has_cache(path[i]) /\ get_content(path[i], cache) THEN path[i]
    ELSE PlainServingNode(path, i + 1)

(* C10: a static-cost strategy with extra_quota = 0 never consults a     *)
(* hint table, never starts a detour, and is served by the node plain    *)
(* shortest-path forwarding is served by.                                *)
C10_ZeroExtraQuotaIsPlainForwarding ==
    (strategy \in StaticCost /\ extra_quota = 0) =>
        /\ ev.lookups = 0
        /\ ev.detours = 0
        /\ pc = "return" =>
               /\ on_path_serving_node = PlainServingNode(Path, 2)
               /\ off_path_trails = <<>>

(* the successful trails of the event: the off-path ones, and the        *)
(* on-path one when the request was served on-path                       *)
SuccessfulTrails ==
    {off_path_trails[i] : i \in 1..Len(off_path_trails)}
    \cup (IF on_path_serving_node # None THEN {on_path_trail} ELSE {})

Returning == pc \in {"deliver", "done"}

(* C11: the return phase processes the successful trails in ascending    *)
(* order of length, and forward_request_hop is issued only along a       *)
(* shortest one among all of them, the on-path trail included.           *)
C11_RequestAlongShortest ==
    (Returning /\ ev.processed # <<>>) =>
        /\ \A i, j \in 1..Len(ev.processed) :
               i < j => Len(ev.processed[i].path) <= Len(ev.processed[j].path)
        /\ ev.requests = Links(ev.processed[1].path)
        /\ \A t \in SuccessfulTrails :
               Len(ev.processed[1].path) <= Len(t)

(* C12: when the request has a successful trail, the finished return     *)
(* phase has issued forward_content_hop on every link of a shortest      *)
(* successful trail, from the serving node down to the receiver.         *)
C12_ContentReachesReceiver ==
    (pc = "done" /\ SuccessfulTrails # {}) =>
        \E t \in SuccessfulTrails :
            /\ \A u \in SuccessfulTrails : Len(t) <= Len(u)
            /\ \A i \in 1..(Len(t) - 1) :
                   Contains(ev.contents, <<t[i + 1], t[i]>>)

(* the nodes that forwarded the content while trail k was returned *)
ForwardedBy(k) ==
    LET r   == ev.processed[k]
        rev == Reverse(r.path)
    IN  {rev[h] : h \in FirstHop(r.mode)..(FirstHop(r.mode) + r.hops - 1)}

ForwardedBefore(k) == UNION {ForwardedBy(i) : i \in 1..(k - 1)}

(* no node forwards the content or installs its hint twice, and every    *)
(* trail is returned up to the first node an earlier trail went through  *)
ReturnDeduplicated ==
    /\ \A i, j \in 1..Len(ev.contents) :
           i # j => ev.contents[i][1] # ev.contents[j][1]
    /\ \A i, j \in 1..Len(ev.installs) :
           i # j => ev.installs[i].prev # ev.installs[j].prev
    /\ \A k \in 1..Len(ev.processed) :
           LET r    == ev.processed[k]
               rev  == Reverse(r.path)
               next == FirstHop(r.mode) + r.hops
           IN  /\ ForwardedBy(k) \cap ForwardedBefore(k) = {}
               /\ IF r.stopped_at = None
                  THEN next > LastHop(r.mode, rev)
                  ELSE /\ next <= LastHop(r.mode, rev)
                       /\ rev[next] = r.stopped_at
                       /\ r.stopped_at \in ForwardedBefore(k)

C14_AtMostOnePlacement == limit_replica => Len(ev.puts) <= 1

(* C15: a hint inserted with is_used = True on the way back from a cache *)
(* is marked used, and is used-and-fresh right after, whether it was     *)
(* created or already there.                                             *)
C15_CacheReturnMarksUsed ==
    (last_op.name = "insert_nexthop" /\ last_op.used) =>
        /\ result # <<>>
        /\ result[1].used_before
        /\ is_used_and_fresh(result[1], now, fresh_interval)

(* C16: get_freshest_except_node returns the live hint of smallest age   *)
(* among those whose nexthop is not the excluded node, the first stored  *)
(* one on ties, and None only when there is no such hint.                *)
C16_FreshestExceptNode ==
    last_op.name = "get_freshest_except_node" =>
        LET ok == {i \in 1..Len(nexthops) :
                      nexthops[i].nexthop # last_op.node}
        IN  IF ok = {} THEN result = <<>>
            ELSE \E i \in ok :
                    /\ result = <<nexthops[i]>>
                    /\ \A j \in ok :
                           /\ age(nexthops[i], now) <= age(nexthops[j], now)
                           /\ j < i => age(nexthops[i], now)
                                           < age(nexthops[j], now)

(* C17: get_best_k_entry returns the non-excluded used-and-fresh hints   *)
(* by descending time_stamp, then, only if fewer than k of those exist,  *)
(* the other non-excluded live hints by descending time_stamp, cut at k: *)
(* no hint that is not used-and-fresh precedes or displaces one that is. *)
C17_UsedAndFreshFirst ==
    last_op.name = "get_best_k_entry" =>
        LET uf(h) == is_used_and_fresh(h, now, fresh_interval)
            ok    == {i \in 1..Len(nexthops) :
                         nexthops[i].nexthop # last_op.node}
            in(h) == \E i \in 1..Len(result) : result[i] = h
        IN  /\ Len(result) = Min(last_op.k, Cardinality(ok))
            /\ \A i \in 1..Len(result) :
                   \E j \in ok : nexthops[j] = result[i]
            /\ \A i, j \in 1..Len(result) :
                   i < j =>
                       /\ result[i] # result[j]
                       /\ uf(result[j]) => uf(result[i])
                       /\ uf(result[i]) = uf(result[j]) =>
                              result[i].time_stamp >= result[j].time_stamp
            /\ \A j \in ok :
                   ~in(nexthops[j]) =>
                       \A i \in 1..Len(result) :
                           /\ uf(nexthops[j]) => uf(result[i])
                           /\ uf(nexthops[j]) = uf(result[i]) =>
                                  result[i].time_stamp
                                      >= nexthops[j].time_stamp

(* an older used-and-fresh hint returned ahead of a newer unused one *)
C17_Witness ==
    /\ last_op.name = "get_best_k_entry"
    /\ Len(result) = 2
    /\ is_used_and_fresh(result[1], now, fresh_interval)
    /\ ~result[2].used_before
    /\ result[1].time_stamp < result[2].time_stamp

(* C18: insert_nexthop(n, d, dist, t) followed by get_nexthop(n) yields  *)
(* a hint with nexthop n, destination d, distance dist and time_stamp t, *)
(* whether n was absent or present.                                      *)
C18_InsertThenLookup ==
    last_op.name = "insert_nexthop" =>
        /\ Len(result) = 1
        /\ result[1].nexthop = last_op.node
        /\ result[1].destination = last_op.dest
        /\ result[1].distance = last_op.distance
        /\ result[1].time_stamp = now

(* a hint that was present is given another destination and distance *)
C18_Witness ==
    /\ last_op.name = "insert_nexthop"
    /\ last_op.dest = "s"
    /\ Len(nexthops) = 2
    /\ nexthops[1].nexthop = last_op.node
    /\ ~nexthops[1].used_before
    /\ nexthops[1].time_stamp > nexthops[2].time_stamp

(* C19: for a stored hint and the entry's expiration interval,           *)
(* is_expired is monotonic in the time: true at t, true at every t' >= t.*)
C19_ExpiredStaysExpired ==
    \A i \in 1..Len(nexthops) :
        \A t \in 0..(MaxTime + 1) : \A u \in t..(MaxTime + 1) :
            is_expired(nexthops[i], t, expiration_interval)
                => is_expired(nexthops[i], u, expiration_interval)

(* a stored hint that is expired now and was not when it was inserted *)
C19_Witness ==
    /\ last_op.name = "get_nexthop"
    /\ \E i \in 1..Len(nexthops) :
           /\ is_expired(nexthops[i], now, expiration_interval)
           /\ ~is_expired(nexthops[i], nexthops[i].time_stamp,
                          expiration_interval)

(* C20: when the forward phase reaches the source and the content is not *)
(* there, process_event aborts and never enters the return phase.        *)
C20_MissAtSourceAborts ==
    (on_path_serving_node = source /\ ~get_content(source, cache)) =>
        pc \notin {"return", "deliver", "done"}

(* link i of the trail has no hint to remove when invalidate_tr gets to  *)
(* it: the table of trail[i] never held it, or an earlier link took it   *)
LinkWithoutHint(i) ==
    /\ has_rsn_table(trail[i])
    /\ \/ ~Contains(ev.before[trail[i]], trail[i + 1])
       \/ \E j \in 1..(i - 1) :
              trail[j] = trail[i] /\ trail[j + 1] = trail[i + 1]

(* C21: invalidate_tr raises the fatal error exactly when some link     *)
(* (trail[i], trail[i+1]) whose first node has a hint table has no hint  *)
(* keyed by trail[i+1]; links whose first node has no hint table are     *)
(* skipped without error                                                 *)
C21_MissingHintIsFatal ==
    pc \in {"error", "returned"}
        => ((pc = "error")
               <=> \E i \in 1..(Len(trail) - 1) : LinkWithoutHint(i))

(* C21 witness: the first link starts at a node without hint table and  *)
(* is skipped, the second link has no hint and the call fails            *)
C21_Witness ==
    /\ pc = "error"
    /\ Len(trail) = 3
    /\ ~has_rsn_table(trail[1])
    /\ LinkWithoutHint(2)

(* ---- the plain strategies (SpecPlain) ---- *)

(* a process_event of the strategy has just returned normally *)
Returned(name) ==
    strategy = name /\ pc = "idle" /\ ev.n >= 1 /\ ~ev.pending

(* call a was made before call b in the calls of the event *)
CalledBefore(a, b) ==
    \E i, j \in 1..Len(ev.calls) :
        i < j /\ ev.calls[i] = a /\ ev.calls[j] = b

(* the nodes put_content was called for, in order *)
Puts == SelectSeq(ev.calls, LAMBDA c : c.call = "put_content")

(* the node that served the content: the last get_content of the event *)
ServingNode ==
    LET gets == SelectSeq(ev.calls, LAMBDA c : c.call = "get_content")
    IN  gets[Len(gets)].u

(* the request was forwarded to the source *)
SourceAsked ==
    \E i \in 1..Len(ev.calls) :
        \/ ev.calls[i] = GetContent(source)
        \/ ev.calls[i].call = "forward_request_path"
           /\ ev.calls[i].v = source

(* the event found no copy at the authoritative cache *)
MissAtCache == ~get_content(authoritative_cache, ev.before)

(* the request repeats the previous one, which was a miss, with no      *)
(* eviction in between                                                   *)
RepeatsAfterMiss ==
    /\ ev.n >= 2
    /\ Contains(ev.prev, PutContent(authoritative_cache))
    /\ ev.prev_receiver = receiver
    /\ ~ev.evicted

(* C22: under HR_SYMM a request that misses at the authoritative cache  *)
(* is forwarded to the source, the content is inserted at the           *)
(* authoritative cache and delivered source to cache to receiver; the   *)
(* identical request issued next, with no eviction in between, is       *)
(* answered by the authoritative cache and nothing is asked from the    *)
(* source                                                               *)
C22_MissThenHit ==
    Returned("HR_SYMM")
        => /\ MissAtCache
                => /\ CalledBefore(
                          forward_request_path(authoritative_cache, source),
                          GetContent(source))
                   /\ Contains(ev.calls, PutContent(authoritative_cache))
                   /\ authoritative_cache \in cache
                   /\ CalledBefore(
                          forward_content_path(source, authoritative_cache),
                          forward_content_path(authoritative_cache, receiver))
           /\ RepeatsAfterMiss
                => /\ Contains(ev.calls,
                               forward_content_path(authoritative_cache,
                                                    receiver))
                   /\ ~SourceAsked

(* C22 witness: the second of two identical requests, the first of      *)
(* which missed, is answered by the authoritative cache                  *)
C22_Witness ==
    /\ Returned("HR_SYMM")
    /\ RepeatsAfterMiss
    /\ Contains(ev.calls,
                forward_content_path(authoritative_cache, receiver))

(* the node where the paths from the source to the cache and to the     *)
(* receiver part                                                         *)
ForkOf(c, r) ==
    LET cp == shortest_path_between(source, c)
        rp == shortest_path_between(source, r)
        k  == CHOOSE i \in 1..Min(Len(cp), Len(rp)) :
                  /\ SubSeq(cp, 1, i) = SubSeq(rp, 1, i)
                  /\ \A j \in (i + 1)..Min(Len(cp), Len(rp)) :
                         SubSeq(cp, 1, j) # SubSeq(rp, 1, j)
    IN  cp[k]

(* links crossed by the content: source to cache, then cache to receiver *)
SymmetricCost ==
    (Len(shortest_path_between(source, authoritative_cache)) - 1)
    + (Len(shortest_path_between(authoritative_cache, receiver)) - 1)

(* links crossed by the content: source to receiver, and fork to cache *)
MulticastCost ==
    (Len(shortest_path_between(source, receiver)) - 1)
    + (Len(shortest_path_between(ForkOf(authoritative_cache, receiver),
                                 authoritative_cache)) - 1)

DeliveredSymmetric ==
    /\ CalledBefore(forward_content_path(source, authoritative_cache),
                    forward_content_path(authoritative_cache, receiver))
    /\ ~Contains(ev.calls, forward_content_path(source, receiver))

DeliveredMulticast ==
    /\ Contains(ev.calls, forward_content_path(source, receiver))
    /\ Contains(ev.calls,
                forward_content_branch(ForkOf(authoritative_cache, receiver),
                                       authoritative_cache))
    /\ ~Contains(ev.calls,
                 forward_content_path(authoritative_cache, receiver))

(* the miss of HR_HYBRID_SM with the cache off the source-receiver path *)
OffPathMiss ==
    /\ Returned("HR_HYBRID_SM")
    /\ MissAtCache
    /\ ~Contains(shortest_path_between(source, receiver),
                 authoritative_cache)

(* C23: under HR_HYBRID_SM, on a miss with the authoritative cache off  *)
(* the shortest source-receiver path, the content is delivered          *)
(* symmetrically when the symmetric hop cost is at most the multicast   *)
(* hop cost and by multicast otherwise, and is inserted at the          *)
(* authoritative cache in both cases                                     *)
C23_CheaperDelivery ==
    OffPathMiss
        => /\ IF SymmetricCost <= MulticastCost
              THEN DeliveredSymmetric ELSE DeliveredMulticast
           /\ Contains(ev.calls, PutContent(authoritative_cache))
           /\ authoritative_cache \in cache

(* C23 witness: the two costs are equal and the delivery is symmetric *)
C23_Witness ==
    /\ OffPathMiss
    /\ SymmetricCost = MulticastCost
    /\ DeliveredSymmetric

(* the return path of LCD and ProbCache, serving node first *)
ContentPath == Reverse(shortest_path_between(receiver, ServingNode))

CachesDownstream ==
    {i \in 2..Len(ContentPath) :
        has_cache(ContentPath[i]) /\ ContentPath[i] # receiver}

OnlyCacheOnPath(v) ==
    /\ {ContentPath[i] : i \in 1..Len(ContentPath)} \cap DOMAIN cache_size
           = {v}
    /\ cache_size[v] = 1
    /\ v # receiver
    /\ v # ServingNode

(* C25: under PROB_CACHE with t_tw = 10, on a return path whose only    *)
(* cache-capable node has capacity 1 and is not the receiver, the       *)
(* placement probability computed at that node is N/(t_tw*capacity)     *)
(* with x = c = 1, strictly positive, and with a draw of 0 the content  *)
(* is inserted at that node                                              *)
C25_SingleCachePlacement ==
    (Returned("PROB_CACHE") /\ t_tw = 10)
        => \A v \in DOMAIN cache_size :
               OnlyCacheOnPath(v)
                   => /\ Len(ev.probs) = 1
                      /\ ev.probs[1].node = v
                      /\ ev.probs[1].num > 0
                      /\ ev.probs[1].num * 10 = ev.probs[1].den
                      /\ ev.draws[v] = 0
                             => /\ Puts = <<PutContent(v)>>
                                /\ v \in cache

(* C25 witness: the single cache of the return path drew 0 and took the *)
(* content                                                               *)
C25_Witness ==
    /\ Returned("PROB_CACHE")
    /\ \E v \in DOMAIN cache_size :
           /\ OnlyCacheOnPath(v)
           /\ ev.draws[v] = 0
           /\ v \notin ev.before
           /\ Puts = <<PutContent(v)>>

(* ---- the breadcrumb strategies (SpecBC) ---- *)

(* the walk has just failed and the on-path loop is about to go on *)
WalkFailed ==
    /\ strategy \in Breadcrumbs
    /\ pc = "hop"
    /\ ev.outcome \in {"loop", "dead_end"}

(* no link of the explored trail has its hint any more *)
TrailInvalidated ==
    \A i \in 1..(Len(ev.explored) - 1) :
        get_nexthop(rsn[ev.explored[i]], ev.explored[i + 1]) = <<>>

(* the last request hops are the explored trail travelled in reverse *)
ForwardedBack ==
    LET back == Links(Reverse(ev.explored))
        n    == Len(ev.requests)
    IN  /\ n >= Len(back)
        /\ SubSeq(ev.requests, n - Len(back) + 1, n) = back

(* C29: in LIRA_BC and TFIB_BC, when the off-path walk fails, by dead   *)
(* end or by revisiting a node of its trail, the explored trail is      *)
(* invalidated and the request is forwarded back hop by hop along the   *)
(* reversed trail to the detour point before on-path forwarding resumes *)
C29_FailedWalkBacktracks ==
    WalkFailed => TrailInvalidated /\ ForwardedBack

(* the node whose entry an on-path lookup or a step of the walk consults *)
ConsultedNode == IF pc = "hop" THEN v_hop ELSE walk_curr

Consultation ==
    /\ strategy = "LIRA_DFIB"
    /\ (pc = "hop" /\ pc' = "cand") \/ (pc = "walk" /\ pc' = "walk")
    /\ ConsultedNode \in rsn_present

C27_EveryDetourReports ==
    (strategy \in StaticCost /\ pc \notin {"walk", "error"})
        => /\ Len(ev.reports) = ev.detours
           /\ \A i \in 1..Len(ev.reports) : ev.reports[i].cost = QScale
           /\ (pc = "cand" /\ ev.outcome # None)
                  => ev.reports[Len(ev.reports)].success = (ev.outcome = "hit")

(* C28: in the static-cost strategies the on-path hops processed plus   *)
(* the detours started never exceed path_length - 1 + extra_quota       *)
C28_WorkWithinQuota ==
    (strategy \in StaticCost /\ pc \notin {"start", "error"})
        => (Len(on_path_trail) - 1 + ev.detours) * QScale <= quota_limit

(* the hint points, along a returned path, toward a cache with a copy   *)
PointsToCopy(inst) ==
    \E k \in 1..Len(ev.processed) :
        LET rev == Reverse(ev.processed[k].path)
        IN  \E i \in 1..(Len(rev) - 1) :
                /\ rev[i] = inst.prev
                /\ {rev[i], rev[i + 1]} = {inst.at, inst.nexthop}
                /\ IF inst.nexthop = inst.prev
                   THEN \E m \in 1..i :
                            has_cache(rev[m]) /\ rev[m] \in cache
                   ELSE \E m \in (i + 1)..Len(rev) :
                            has_cache(rev[m]) /\ rev[m] \in cache

(* C30: in TFIB_SC and TFIB_DC every hint installed by the return phase *)
(* at a node with a hint table points, along the path it was installed  *)
(* on, toward a cache that holds a copy once the event is over          *)
C30_HintsPointToCopy ==
    (strategy \in Tfib /\ pc = "done")
        => \A i \in 1..Len(ev.installs) :
               has_rsn_table(ev.installs[i].at)
                   => PointsToCopy(ev.installs[i])

(* ---- sessions (SpecPlain) ---- *)

(* the positions of the calls named name in the calls of the event *)
CallsNamed(name) ==
    {i \in 1..Len(ev.calls) : ev.calls[i].call = name}

(* C36: every process_event that returns normally calls start_session      *)
(* exactly once, before any forwarding or cache operation, and end_session *)
(* exactly once, after the last one                                        *)
C36_SessionBracketed ==
    (pc = "idle" /\ ev.n >= 1) =>
        /\ CallsNamed("start_session") = {1}
        /\ CallsNamed("end_session") = {Len(ev.calls)}

(* ---- ages (SpecEntry) ---- *)

(* C39: with non-decreasing times no query raises "Age must be >= 0":     *)
(* every stored hint has a time_stamp at or before the time of the call   *)
(* being made on its entry                                                *)
C39_AgeNeverNegative ==
    \A i \in 1..Len(nexthops) : age(nexthops[i], now) >= 0

(* a query made after the insertion returned the hint, with a positive    *)
(* age                                                                    *)
C39_Witness ==
    /\ last_op.name = "get_freshest_except_node"
    /\ result # <<>>
    /\ age(result[1], now) > 0

(* ---- candidate paths (Spec) ---- *)

(* the path visits no node twice *)
VisitsOnce(path) ==
    \A j, k \in 1..Len(path) : j # k => path[j] # path[k]

(* C37: every candidate path appended to off_path_trails (the on-path     *)
(* prefix up to the detour point followed by the off-path trail) visits   *)
(* each node at most once                                                 *)
C37_CandidateVisitsOnce ==
    \A i \in 1..Len(off_path_trails) : VisitsOnce(off_path_trails[i])

(* ---- invalidation within the event (Spec) ---- *)

(* C38: in the keyed detour strategies invalidate_tr never raises its     *)
(* RuntimeError: every link of a trail it is given still has its hint,    *)
(* also when the candidates of one lookup fail one after another          *)
C38_InvalidateNeverFatal == keyed => pc # "error"

(* two candidates fetched by the lookup at the first router both failed   *)
(* and both trails were invalidated                                       *)
C38_Witness ==
    /\ keyed /\ fan_out > 1 /\ pc = "cand" /\ hop = 1
    /\ Len(ev.reports) = 2
    /\ \A i \in 1..2 : ~ev.reports[i].success
    /\ ev.outcome \in {"loop", "dead_end"}

(* ---- distances of the installed hints (SpecBC, Spec) ---- *)

C34_BrokenHintOfCurrentNodeRemoved ==
    strategy \in LceStrategies =>
        \A k \in 1..Len(ev.back) :
            LET b == ev.back[k]
            IN  /\ b.hints[b.at][ev.content] = b.from
                /\ b.after[b.at][ev.content] = None
                /\ \A j \in 1..Len(ev.off_path) :
                       ev.off_path[j] # b.call + 1

(* the calls of the forward phase: those before the first              *)
(* forward_content_hop                                                   *)
LceForwardCalls ==
    {j \in 1..Len(ev.calls) :
        \A i \in 1..j : ev.calls[i].call # "forward_content_hop"}

(* the last forward_request_hop before call j, 0 if there is none *)
LceHopBefore(j) ==
    LET hops == {i \in 1..(j - 1) :
                    ev.calls[i].call = "forward_request_hop"}
    IN  IF hops = {} THEN 0 ELSE CHOOSE i \in hops : \A k \in hops : k <= i

LceOffPathCalls == {ev.off_path[j] : j \in 1..Len(ev.off_path)}

(* C33: in LIRA_LCE, LIRA_CHOICE and LIRA_PROB_CACHE the off-path hops   *)
(* made on hints in one request are at most max_detour; after the first  *)
(* off-path hop no hint table is consulted at a node reached by an       *)
(* on-path hop; and the forward phase ends with a serving node.          *)
C33_DetourBounded ==
    (strategy \in LceStrategies /\ ev.n > 0) =>
        /\ Len(ev.off_path) <= max_detour
        /\ \A j \in LceForwardCalls :
               (/\ ev.calls[j].call = "get_rsn"
                /\ ev.off_path # <<>>
                /\ j > ev.off_path[1])
               => LceHopBefore(j) \in LceOffPathCalls
        /\ ev.serving_node # None

(* max_detour off-path hops that end without the content, then on-path   *)
(* hops through routers to the source                                    *)
C33_Witness ==
    /\ strategy \in LceStrategies /\ ev.n > 0
    /\ max_detour = MaxDetour
    /\ Len(ev.off_path) = max_detour
    /\ ev.serving_node = source
    /\ \E j \in LceForwardCalls :
           /\ j > ev.off_path[Len(ev.off_path)]
           /\ ev.calls[j].call = "forward_request_hop"
           /\ has_rsn_table(ev.calls[j].v)

(* the nodes with a call of the given name for the content c in the     *)
(* last request                                                          *)
LceNodesCalled(name, c) ==
    {ev.calls[j].u : j \in {i \in 1..Len(ev.calls) :
                                /\ ev.calls[i].call = name
                                /\ ev.calls[i].content = c}}

(* C32: in LIRA_LCE, a node of the return path with a hint table whose   *)
(* cache the content is inserted into holds no hint for that content     *)
(* afterwards, and a hint for the content is installed only at nodes     *)
(* whose cache the content was not inserted into.                        *)
C32_InsertedOrHinted ==
    (strategy = "LIRA_LCE" /\ ev.n > 0) =>
        /\ \A v \in LceNodesCalled("put_content", ev.content) :
               has_rsn_table(v) => hints[v][ev.content] = None
        /\ LceNodesCalled("put_rsn", ev.content)
               \cap LceNodesCalled("put_content", ev.content) = {}

(* the content is inserted at a node that held a hint for it, and a hint *)
(* is installed at another node of the same return path                  *)
C32_Witness ==
    /\ strategy = "LIRA_LCE" /\ ev.n > 0
    /\ \E v \in LceNodesCalled("put_content", ev.content) :
           /\ has_rsn_table(v)
           /\ ev.before.hints[v][ev.content] # None
    /\ LceNodesCalled("put_rsn", ev.content) # {}

(* the calls of the last request that install the hint of an evicted    *)
(* content                                                               *)
LceEvictionHints ==
    {j \in 1..Len(ev.calls) : /\ ev.calls[j].call = "put_rsn"
                               /\ ev.calls[j].content # ev.content}

(* C31: in LIRA_LCE, LIRA_CHOICE and LIRA_PROB_CACHE with rsn_on_evict,  *)
(* starting from empty caches, the next_hop map of a node with a hint    *)
(* table holds an entry for every content its cache evicts (no missing   *)
(* key), the hint for the evicted content is installed toward the hop    *)
(* the content was last forwarded to from that node, and the entry is    *)
(* removed from the map.                                                 *)
C31_EvictedHintTowardLastForward ==
    (strategy \in LceStrategies /\ rsn_on_evict) =>
        /\ pc # "error"
        /\ \A j \in LceEvictionHints :
               LET call == ev.calls[j]
               IN  /\ call.v = ev.last_forwarded[call.u][call.content]
                   /\ call.content \notin DOMAIN next_hops[call.u]

(* C31 amended: with rsn_on_evict the next_hop map of a node with a     *)
(* hint table holds an entry for every content its cache evicts (no      *)
(* missing key), the hint for the evicted content is installed toward    *)
(* the hop the content was forwarded to when it was last inserted into   *)
(* the cache of that node or served by that node, and the entry is       *)
(* removed from the map.                                                 *)
C31_EvictedHintTowardRecordedHop ==
    (strategy \in LceStrategies /\ rsn_on_evict) =>
        /\ pc # "error"
        /\ \A j \in LceEvictionHints :
               LET call == ev.calls[j]
               IN  /\ call.v = ev.last_kept[call.u][call.content]
                   /\ hints[call.u][call.content] = call.v
                   /\ call.content \notin DOMAIN next_hops[call.u]

(* a content is evicted after it passed through the node without being   *)
(* inserted: its hint goes to the hop recorded at its insertion, not to  *)
(* the hop it was last forwarded to                                      *)
C31_Witness ==
    /\ strategy \in LceStrategies /\ rsn_on_evict
    /\ \E j \in LceEvictionHints :
           LET call == ev.calls[j]
           IN  /\ call.v = ev.last_kept[call.u][call.content]
               /\ call.v # ev.last_forwarded[call.u][call.content]

(* sanity of the model itself *)
ModelSane ==
    /\ pc # "error"
    /\ \A n \in DOMAIN n_quotas : \A i \in 1..TableSize :
           n_quotas[n][i] % 2 = 1 => n_quotas[n][i] < 2 * QScale

====
